---- MODULE Spec2Model ----
(***************************************************************************)
(* The neighbour-countries quiz: the country directory of src/src/data.js  *)
(* and the round state machine GameState of src/src/game.js.               *)
(*                                                                         *)
(* Strings are sequences of one-character strings, so that normalizeName   *)
(* is computed character by character as the JavaScript does.              *)
(***************************************************************************)
EXTENDS Integers, Sequences, FiniteSets, TLC

(***************************************************************************)
(* Bounds of the model.                                                    *)
(***************************************************************************)
MaxScore == 1
MaxRound == 2
MaxExclude == 3
MaxNameLen == 3
MaxPoints == 3
MaxConfirmRound == 3
MaxPrompts == 2

(***************************************************************************)
(* Sequence helpers (Array.prototype.* of the source).                     *)
(***************************************************************************)
Range(s) == {s[i] : i \in 1..Len(s)}

RECURSIVE Concat(_)
Concat(ss) == IF ss = <<>> THEN <<>> ELSE Head(ss) \o Concat(Tail(ss))

\* A removal that fills the hole with the last element instead of shifting
RemoveAt_SwapLast(s, i) ==
    [j \in 1..(Len(s) - 1) |-> IF j = i THEN s[Len(s)] ELSE s[j]]

\* Array.prototype.splice(index, 1)
RemoveAt(s, i) == [j \in 1..(Len(s) - 1) |-> IF j < i THEN s[j] ELSE s[j + 1]]

\* Array.prototype.findIndex, given the set of the indexes that pass the test:
\* the least of them; 0 stands for -1 (sequences are 1-based)
FindIndex(passing) ==
    IF passing = {} THEN 0 ELSE CHOOSE i \in passing : \A j \in passing : i <= j

(***************************************************************************)
(* Characters.  "á" is the precomposed letter, "´" the combining acute     *)
(* accent U+0301 that NFD splits it into; "'" and "_" are the punctuation. *)
(***************************************************************************)
Chars == {"a", "b", "A", "B", "á", "´", "'", "_", " "}

\* String.prototype.toLowerCase
toLowerCase(c) == CASE c = "A" -> "a" [] c = "B" -> "b" [] OTHER -> c

\* String.prototype.normalize('NFD') of one character
NFD(c) == IF c = "á" THEN <<"a", "´">> ELSE <<c>>

\* the class U+0300..U+036F of the regular expression
IsCombiningMark(c) == c = "´"

\* \w and \s of a JavaScript regular expression (ASCII word characters)
IsWordChar(c) == c \in {"a", "b", "A", "B", "_"}
IsSpace(c) == c = " "

RECURSIVE CollapseSpaces(_)
\* .replace(/\s+/g, ' ')
CollapseSpaces(s) ==
    IF s = <<>> THEN <<>>
    ELSE IF IsSpace(Head(s))
         THEN IF Tail(s) # <<>> /\ IsSpace(Head(Tail(s)))
              THEN CollapseSpaces(Tail(s))
              ELSE <<" ">> \o CollapseSpaces(Tail(s))
         ELSE <<Head(s)>> \o CollapseSpaces(Tail(s))

RECURSIVE TrimLeft(_)
TrimLeft(s) == IF s # <<>> /\ IsSpace(Head(s)) THEN TrimLeft(Tail(s)) ELSE s

RECURSIVE TrimRight(_)
TrimRight(s) ==
    IF s # <<>> /\ IsSpace(s[Len(s)]) THEN TrimRight(SubSeq(s, 1, Len(s) - 1)) ELSE s

\* String.prototype.trim
Trim(s) == TrimRight(TrimLeft(s))

\* data.js normalizeName
normalizeName(str) ==
    LET lower   == [i \in 1..Len(str) |-> toLowerCase(str[i])]
        nfd     == Concat([i \in 1..Len(lower) |-> NFD(lower[i])])
        noMarks == SelectSeq(nfd, LAMBDA c : ~IsCombiningMark(c))
        noPunct == SelectSeq(noMarks, LAMBDA c : IsWordChar(c) \/ IsSpace(c))
    IN  Trim(CollapseSpaces(noPunct))

(***************************************************************************)
(* The data artifacts.  dataset = 0 is "not loaded" (countriesData and     *)
(* neighborsData are null); 1..3 are three contents of the JSON files:     *)
(*   1  a well-formed world;                                               *)
(*   2  an adjacency table that names a code X absent from countries.json  *)
(*      and has no entry for B, and an island C;                           *)
(*   3  a world of islands only.                                           *)
(***************************************************************************)
Datasets == {1, 2, 3}

\* Object.keys(countriesData), in file order
CountryKeys(ds) == IF ds = 0 THEN <<>> ELSE <<"A", "B", "C">>

\* countriesData[code]: {name, aliases}
countriesData(code) ==
    CASE code = "A" -> [name |-> <<"A", "b">>,
                        aliases |-> << <<"a">>, <<"a", "b", "a", "b">> >>]
      [] code = "B" -> [name |-> <<"B", "á", "b">>, aliases |-> <<>>]
      [] code = "C" -> [name |-> <<"a", "'", "a">>, aliases |-> << <<"b", " ", "b">> >>]

HasCountry(ds, code) == code \in Range(CountryKeys(ds))

\* Object.keys(neighborsData), in file order
NeighborKeys(ds) ==
    CASE ds = 0 -> <<>>
      [] ds = 1 -> <<"A", "B", "C">>
      [] ds = 2 -> <<"A", "X", "C">>
      [] ds = 3 -> <<"A", "B", "C">>

\* neighborsData[code] for a key of the table
neighborsData(ds, code) ==
    CASE ds = 1 /\ code = "A" -> <<"B", "C">>
      [] ds = 1 /\ code = "B" -> <<"A">>
      [] ds = 1 /\ code = "C" -> <<"A">>
      [] ds = 2 /\ code = "A" -> <<"B", "X">>
      [] ds = 2 /\ code = "X" -> <<"A">>
      [] OTHER -> <<>>

\* Every code that occurs anywhere in the artifacts
Codes == {"A", "B", "C", "X"}

\* The texts a caller passes to addGuess
Inputs ==
    { <<"a", "b">>, <<"a">>,
      <<"B", "A", "B">>,
      <<" ", "b", " ", " ", "b">>,
      <<"b">>, <<"'">> }

\* The names the autocomplete offers: result.name of a country of the table
CanonicalNames == {countriesData(c).name : c \in {"A", "B", "C"}}

\* data.js getNeighbors
getNeighbors(ds, code) ==
    IF code \in Range(NeighborKeys(ds)) THEN neighborsData(ds, code) ELSE <<>>

\* data.js findCountryByName: the code of the first country whose name or
\* one of whose aliases normalizes to the normalized input; "" stands for null
CountryMatches(code, normalized) ==
    \/ normalizeName(countriesData(code).name) = normalized
    \/ \E i \in 1..Len(countriesData(code).aliases) :
          normalizeName(countriesData(code).aliases[i]) = normalized

findCountryByName(ds, name) ==
    LET keys == CountryKeys(ds)
        normalized == normalizeName(name)
        idx  == FindIndex({k \in 1..Len(keys) : CountryMatches(keys[k], normalized)})
    IN  IF ds = 0 \/ idx = 0 THEN "" ELSE keys[idx]

\* findCountryByName tabulated over the texts of the model, so that the
\* normalisation of every name is computed once
Resolved ==
    [ds \in {0} \cup Datasets |->
        [t \in Inputs \cup CanonicalNames |-> findCountryByName(ds, t)]]

\* getCountriesWithNeighbors without the filter on neighbors.length
getCountriesWithNeighbors_NoFilter(ds) ==
    IF ds = 0 THEN <<>>
    ELSE SelectSeq(NeighborKeys(ds), LAMBDA code : HasCountry(ds, code))

\* data.js getCountriesWithNeighbors
getCountriesWithNeighbors(ds) ==
    IF ds = 0 THEN <<>>
    ELSE LET withNeighbors ==
                 SelectSeq(NeighborKeys(ds), LAMBDA code : Len(neighborsData(ds, code)) > 0)
         IN  SelectSeq(withNeighbors, LAMBDA code : HasCountry(ds, code))

\* String.prototype.includes on sequences of characters
Includes(hay, needle) ==
    \E i \in 0..(Len(hay) - Len(needle)) : SubSeq(hay, i + 1, i + Len(needle)) = needle

\* MatchType that looks at the canonical name only
MatchType_NameOnly(code, normalized) ==
    IF Includes(normalizeName(countriesData(code).name), normalized) THEN "name"
    ELSE ""

\* data.js searchCountries, loop body: which of the two checks pushes the
\* country ("" when neither does)
MatchType(code, normalized) ==
    IF Includes(normalizeName(countriesData(code).name), normalized) THEN "name"
    ELSE IF \E i \in 1..Len(countriesData(code).aliases) :
               Includes(normalizeName(countriesData(code).aliases[i]), normalized)
         THEN "alias"
         ELSE ""

\* SearchLoop without the test of excludeCodes
RECURSIVE SearchLoop_NoExclude(_, _, _, _)
SearchLoop_NoExclude(keys, normalized, excludeCodes, results) ==
    IF keys = <<>> THEN results
    ELSE LET code == Head(keys)
             type == MatchType(code, normalized)
         IN  IF type = ""
             THEN SearchLoop_NoExclude(Tail(keys), normalized, excludeCodes, results)
             ELSE SearchLoop_NoExclude(Tail(keys), normalized, excludeCodes,
                                       Append(results, [code |-> code, matchType |-> type]))

\* data.js searchCountries, the loop over Object.entries(countriesData)
RECURSIVE SearchLoop(_, _, _, _)
SearchLoop(keys, normalized, excludeCodes, results) ==
    IF keys = <<>> THEN results
    ELSE LET code == Head(keys)
             type == MatchType(code, normalized)
         IN  IF code \in Range(excludeCodes) \/ type = ""
             THEN SearchLoop(Tail(keys), normalized, excludeCodes, results)
             ELSE SearchLoop(Tail(keys), normalized, excludeCodes,
                             Append(results, [code |-> code, matchType |-> type]))

\* CompareResults without the test for an exact match
CompareResults_LengthOnly(a, b, normalized) ==
    Len(normalizeName(countriesData(a.code).name))
        - Len(normalizeName(countriesData(b.code).name))

\* data.js searchCountries, the comparator of results.sort
CompareResults(a, b, normalized) ==
    LET aName  == normalizeName(countriesData(a.code).name)
        bName  == normalizeName(countriesData(b.code).name)
        aExact == aName = normalized
        bExact == bName = normalized
    IN  IF aExact /\ ~bExact THEN 0 - 1
        ELSE IF ~aExact /\ bExact THEN 1
        ELSE Len(aName) - Len(bName)

\* Array.prototype.sort is stable: x goes behind the last element that does
\* not compare greater than it
InsertSorted(sorted, x, normalized) ==
    LET notGreater == {j \in 1..Len(sorted) : CompareResults(sorted[j], x, normalized) <= 0}
        k == IF notGreater = {} THEN 0
             ELSE CHOOSE j \in notGreater : \A l \in notGreater : l <= j
    IN  SubSeq(sorted, 1, k) \o <<x>> \o SubSeq(sorted, k + 1, Len(sorted))

RECURSIVE SortResults(_, _, _)
SortResults(results, sorted, normalized) ==
    IF results = <<>> THEN sorted
    ELSE SortResults(Tail(results), InsertSorted(sorted, Head(results), normalized),
                     normalized)

\* data.js searchCountries
searchCountries(ds, query, excludeCodes) ==
    IF ds = 0 \/ query = <<>> THEN <<>>
    ELSE LET normalized == normalizeName(query)
         IN  SortResults(SearchLoop(CountryKeys(ds), normalized, excludeCodes, <<>>),
                         <<>>, normalized)

\* getCountriesWithNeighbors tabulated over the artifacts of the model
Candidates == [ds \in {0} \cup Datasets |-> getCountriesWithNeighbors(ds)]

(***************************************************************************)
(* State.                                                                  *)
(***************************************************************************)
VARIABLES
    dataset,             \* which artifacts data.js holds (0: none yet)
    targetCountryCode,   \* "" stands for null
    neighbors,           \* sequence of codes
    guesses,             \* sequence of [code, name, correct, revealed]
    correctGuesses,
    userCorrectGuesses,
    incorrectGuesses,
    submitted,
    revealed,
    score,
    lastRoundGains,
    lastRoundLosses,
    round,
    ret,                 \* the call that is returning: its name and its value;
                         \* [op |-> "idle"] between two calls
    counted,             \* history: how often each code has been scored this round
                         \* (0, 1, or 2 for "more than once")
    typed,               \* history: the codes of the guesses in the list that
                         \* addGuess put there (reveal() pushes unmarked guesses)
    ui,                  \* the page: how far Game.init has come, whether the
                         \* listeners are bound, and what is rendered
    penalties,           \* the penalty counter of the cumulative-penalty GameState
    submittedWrong       \* history: the codes that a submit of the
                         \* cumulative-penalty GameState has found incorrect

gameVars == <<targetCountryCode, neighbors, guesses, correctGuesses, userCorrectGuesses,
              incorrectGuesses, submitted, revealed, score, lastRoundGains,
              lastRoundLosses, round>>

vars == <<dataset, targetCountryCode, neighbors, guesses, correctGuesses,
          userCorrectGuesses, incorrectGuesses, submitted, revealed, score,
          lastRoundGains, lastRoundLosses, round, ret, counted, typed, ui,
          penalties, submittedWrong>>

variantVars == <<penalties, submittedWrong>>

NoCount == [c \in Codes |-> 0]

\* The page before Game.init has run: no listener is bound, the loading state
\* is shown and the sections of the game are hidden (ui.js hideLoading is what
\* shows them), no chip and no map is rendered
UiInit ==
    [phase          |-> "loading",
     bound          |-> FALSE,
     visible        |-> FALSE,
     chips          |-> <<>>,
     submitDisabled |-> FALSE,
     inputDisabled  |-> FALSE,
     revealDisabled |-> FALSE,
     mapShown       |-> FALSE,
     map            |-> [c \in Codes |-> "none"],
     mapInit        |-> "none",
     lastRender     |-> "none",
     prompts        |-> 0,
     inputValue     |-> <<>>,
     dropdownItems  |-> <<>>,
     dropdownHidden |-> TRUE,
     selectedDropdownIndex |-> -1,
     availableSuggestions  |-> <<>>]

GuessCodes(gs) == {gs[i].code : i \in 1..Len(gs)}

\* GameState.constructor / reset, before loadGameData has run
Init ==
    /\ dataset = 0
    /\ targetCountryCode = ""
    /\ neighbors = <<>>
    /\ guesses = <<>>
    /\ correctGuesses = {}
    /\ userCorrectGuesses = {}
    /\ incorrectGuesses = {}
    /\ submitted = FALSE
    /\ revealed = FALSE
    /\ score = 0
    /\ lastRoundGains = 0
    /\ lastRoundLosses = 0
    /\ round = 1
    /\ ret = [op |-> "idle"]
    /\ counted = NoCount
    /\ typed = {}
    /\ ui = UiInit
    /\ penalties = 0
    /\ submittedWrong = {}

\* data.js loadGameData, resolving with the artifacts ds
loadGameData(ds) ==
    /\ ret.op = "idle"
    /\ UNCHANGED <<ui, variantVars>>
    /\ dataset = 0
    /\ dataset' = ds
    /\ ret' = [op |-> "loadGameData", success |-> TRUE]
    /\ UNCHANGED <<gameVars, counted, typed>>

\* data.js loadGameData when a fetch rejects or a body is not JSON: the catch
\* rethrows before any of the three tables is assigned
loadGameDataFails ==
    /\ ret.op = "idle"
    /\ UNCHANGED <<ui, variantVars>>
    /\ dataset = 0
    /\ ret' = [op |-> "loadGameData", success |-> FALSE]
    /\ UNCHANGED <<dataset, gameVars, counted, typed>>

\* startNewRound that keeps the incorrect guesses of the previous round
startNewRound_KeepsIncorrect(i) ==
    /\ ret.op = "idle"
    /\ UNCHANGED <<ui, variantVars>>
    /\ LET candidates == Candidates[dataset]
       IN  IF candidates = <<>>
           THEN /\ i = 1
                /\ ret' = [op |-> "startNewRound", success |-> FALSE,
                           error |-> "No countries with neighbors available"]
                /\ UNCHANGED <<dataset, gameVars, counted, typed>>
           ELSE /\ i \in 1..Len(candidates)
                /\ targetCountryCode' = candidates[i]
                /\ neighbors' = getNeighbors(dataset, candidates[i])
                /\ guesses' = <<>>
                /\ correctGuesses' = {}
                /\ userCorrectGuesses' = {}
                /\ submitted' = FALSE
                /\ revealed' = FALSE
                /\ lastRoundGains' = 0
                /\ lastRoundLosses' = 0
                /\ counted' = NoCount
                /\ typed' = {}
                /\ ret' = [op |-> "startNewRound", success |-> TRUE]
                /\ UNCHANGED <<dataset, incorrectGuesses, score, round>>

\* GameState.startNewRound, Math.random picking candidates[i]
startNewRound(i) ==
    /\ ret.op = "idle"
    /\ UNCHANGED <<ui, variantVars>>
    /\ LET candidates == Candidates[dataset]
       IN  IF candidates = <<>>
           THEN /\ i = 1
                /\ ret' = [op |-> "startNewRound", success |-> FALSE,
                           error |-> "No countries with neighbors available"]
                /\ UNCHANGED <<dataset, gameVars, counted, typed>>
           ELSE /\ i \in 1..Len(candidates)
                /\ targetCountryCode' = candidates[i]
                /\ neighbors' = getNeighbors(dataset, candidates[i])
                /\ guesses' = <<>>
                /\ correctGuesses' = {}
                /\ userCorrectGuesses' = {}
                /\ incorrectGuesses' = {}
                /\ submitted' = FALSE
                /\ revealed' = FALSE
                /\ lastRoundGains' = 0
                /\ lastRoundLosses' = 0
                /\ counted' = NoCount
                /\ typed' = {}
                /\ ret' = [op |-> "startNewRound", success |-> TRUE]
                /\ UNCHANGED <<dataset, score, round>>

\* addGuess that records an unresolved text as a wrong guess instead of failing
addGuess_AcceptUnknown(countryName) ==
    /\ ret.op = "idle"
    /\ UNCHANGED <<ui, variantVars>>
    /\ LET code == Resolved[dataset][countryName]
       IN  IF \E k \in 1..Len(guesses) : guesses[k].code = code
           THEN /\ ret' = [op |-> "addGuess", success |-> FALSE, error |-> "Already guessed"]
                /\ UNCHANGED <<dataset, gameVars, counted, typed>>
           ELSE /\ guesses' = Append(guesses, [code     |-> code,
                                               name     |-> countryName,
                                               correct  |-> code \in Range(neighbors),
                                               revealed |-> FALSE])
                /\ ret' = [op |-> "addGuess", success |-> TRUE, country |-> code,
                           isCorrect |-> code \in Range(neighbors)]
                /\ UNCHANGED <<dataset, targetCountryCode, neighbors, correctGuesses,
                               userCorrectGuesses, incorrectGuesses, submitted, revealed,
                               score, lastRoundGains, lastRoundLosses, round, counted>>
                /\ typed' = typed \cup {code}

\* addGuess without the duplicate check
addGuess_NoDuplicateCheck(countryName) ==
    /\ ret.op = "idle"
    /\ UNCHANGED <<ui, variantVars>>
    /\ LET code == Resolved[dataset][countryName]
       IN  IF code = ""
           THEN /\ ret' = [op |-> "addGuess", success |-> FALSE, error |-> "Country not found"]
                /\ UNCHANGED <<dataset, gameVars, counted, typed>>
           ELSE /\ guesses' = Append(guesses, [code     |-> code,
                                               name     |-> countriesData(code).name,
                                               correct  |-> code \in Range(neighbors),
                                               revealed |-> FALSE])
                /\ ret' = [op |-> "addGuess", success |-> TRUE, country |-> code,
                           isCorrect |-> code \in Range(neighbors)]
                /\ UNCHANGED <<dataset, targetCountryCode, neighbors, correctGuesses,
                               userCorrectGuesses, incorrectGuesses, submitted, revealed,
                               score, lastRoundGains, lastRoundLosses, round, counted>>
                /\ typed' = typed \cup {code}

\* GameState.addGuess
addGuess(countryName) ==
    /\ ret.op = "idle"
    /\ UNCHANGED <<ui, variantVars>>
    /\ LET code == Resolved[dataset][countryName]
       IN  IF code = ""
           THEN /\ ret' = [op |-> "addGuess", success |-> FALSE, error |-> "Country not found"]
                /\ UNCHANGED <<dataset, gameVars, counted, typed>>
           ELSE IF \E k \in 1..Len(guesses) : guesses[k].code = code
           THEN /\ ret' = [op |-> "addGuess", success |-> FALSE, error |-> "Already guessed"]
                /\ UNCHANGED <<dataset, gameVars, counted, typed>>
           ELSE /\ guesses' = Append(guesses, [code     |-> code,
                                               name     |-> countriesData(code).name,
                                               correct  |-> code \in Range(neighbors),
                                               revealed |-> FALSE])
                /\ ret' = [op |-> "addGuess", success |-> TRUE, country |-> code,
                           isCorrect |-> code \in Range(neighbors)]
                /\ UNCHANGED <<dataset, targetCountryCode, neighbors, correctGuesses,
                               userCorrectGuesses, incorrectGuesses, submitted, revealed,
                               score, lastRoundGains, lastRoundLosses, round, counted>>
                /\ typed' = typed \cup {code}

\* removeGuess that reopens the round when it removes a guess
removeGuess_Reopens(countryCode) ==
    /\ ret.op = "idle"
    /\ UNCHANGED <<ui, variantVars>>
    /\ LET index == FindIndex({k \in 1..Len(guesses) : guesses[k].code = countryCode})
       IN  IF index # 0
           THEN /\ guesses' = RemoveAt(guesses, index)
                /\ submitted' = FALSE
                /\ ret' = [op |-> "removeGuess", value |-> TRUE]
                /\ UNCHANGED <<dataset, targetCountryCode, neighbors, correctGuesses,
                               userCorrectGuesses, incorrectGuesses, revealed,
                               score, lastRoundGains, lastRoundLosses, round, counted>>
                /\ typed' = typed \ {countryCode}
           ELSE /\ ret' = [op |-> "removeGuess", value |-> FALSE]
                /\ UNCHANGED <<dataset, gameVars, counted, typed>>

\* removeGuess that reports a removal when it found nothing to remove
removeGuess_AlwaysTrue(countryCode) ==
    /\ ret.op = "idle"
    /\ UNCHANGED <<ui, variantVars>>
    /\ LET index == FindIndex({k \in 1..Len(guesses) : guesses[k].code = countryCode})
       IN  IF index # 0
           THEN /\ guesses' = RemoveAt(guesses, index)
                /\ ret' = [op |-> "removeGuess", value |-> TRUE]
                /\ UNCHANGED <<dataset, targetCountryCode, neighbors, correctGuesses,
                               userCorrectGuesses, incorrectGuesses, submitted, revealed,
                               score, lastRoundGains, lastRoundLosses, round, counted>>
                /\ typed' = typed \ {countryCode}
           ELSE /\ ret' = [op |-> "removeGuess", value |-> TRUE]
                /\ UNCHANGED <<dataset, gameVars, counted, typed>>

\* GameState.removeGuess
removeGuess(countryCode) ==
    /\ ret.op = "idle"
    /\ UNCHANGED <<ui, variantVars>>
    /\ LET index == FindIndex({k \in 1..Len(guesses) : guesses[k].code = countryCode})
       IN  IF index # 0
           THEN /\ guesses' = RemoveAt(guesses, index)
                /\ ret' = [op |-> "removeGuess", value |-> TRUE]
                /\ UNCHANGED <<dataset, targetCountryCode, neighbors, correctGuesses,
                               userCorrectGuesses, incorrectGuesses, submitted, revealed,
                               score, lastRoundGains, lastRoundLosses, round, counted>>
                /\ typed' = typed \ {countryCode}
           ELSE /\ ret' = [op |-> "removeGuess", value |-> FALSE]
                /\ UNCHANGED <<dataset, gameVars, counted, typed>>

\* ProcessGuesses that scores a correct guess whether or not its code is
\* already in correctGuesses
RECURSIVE ProcessGuesses_Recounts(_, _)
ProcessGuesses_Recounts(gs, acc) ==
    IF gs = <<>> THEN acc
    ELSE LET guess == Head(gs)
         IN  IF guess.correct
             THEN ProcessGuesses_Recounts(Tail(gs),
                         [acc EXCEPT !.correctGuesses = @ \cup {guess.code},
                                     !.userCorrectGuesses = @ \cup {guess.code},
                                     !.gains = @ + 1,
                                     !.scored = Append(@, guess.code)])
             ELSE IF guess.code \notin acc.incorrectGuesses
                  THEN ProcessGuesses_Recounts(Tail(gs),
                         [acc EXCEPT !.incorrectGuesses = @ \cup {guess.code},
                                     !.losses = @ + 1,
                                     !.scored = Append(@, guess.code)])
                  ELSE ProcessGuesses_Recounts(Tail(gs), acc)

\* GameState.submit, first loop: this.guesses.forEach(...) over gs, threading
\* the two per-round sets and the two counters through acc
RECURSIVE ProcessGuesses(_, _)
ProcessGuesses(gs, acc) ==
    IF gs = <<>> THEN acc
    ELSE LET guess == Head(gs)
         IN  IF guess.correct
             THEN IF guess.code \notin acc.correctGuesses
                  THEN ProcessGuesses(Tail(gs),
                         [acc EXCEPT !.correctGuesses = @ \cup {guess.code},
                                     !.userCorrectGuesses = @ \cup {guess.code},
                                     !.gains = @ + 1,
                                     !.scored = Append(@, guess.code)])
                  ELSE ProcessGuesses(Tail(gs), acc)
             ELSE IF guess.code \notin acc.incorrectGuesses
                  THEN ProcessGuesses(Tail(gs),
                         [acc EXCEPT !.incorrectGuesses = @ \cup {guess.code},
                                     !.losses = @ + 1,
                                     !.scored = Append(@, guess.code)])
                  ELSE ProcessGuesses(Tail(gs), acc)

\* RevealMissing without this.correctGuesses.add(code) for a missed neighbor
RECURSIVE RevealMissing_NoAdd(_, _, _)
RevealMissing_NoAdd(ds, ns, acc) ==
    IF ns = <<>> THEN acc
    ELSE LET code == Head(ns)
         IN  IF ~\E k \in 1..Len(acc.guesses) : acc.guesses[k].code = code
             THEN RevealMissing_NoAdd(ds, Tail(ns),
                    [acc EXCEPT !.losses = @ + 1,
                                !.guesses = IF HasCountry(ds, code)
                                            THEN Append(@, [code     |-> code,
                                                            name     |-> countriesData(code).name,
                                                            correct  |-> TRUE,
                                                            revealed |-> TRUE])
                                            ELSE @,
                                !.scored = Append(@, code)])
             ELSE RevealMissing_NoAdd(ds, Tail(ns), acc)

\* GameState.submit, second loop: this.neighbors.forEach(...) over ns
RECURSIVE RevealMissing(_, _, _)
RevealMissing(ds, ns, acc) ==
    IF ns = <<>> THEN acc
    ELSE LET code == Head(ns)
         IN  IF ~\E k \in 1..Len(acc.guesses) : acc.guesses[k].code = code
             THEN RevealMissing(ds, Tail(ns),
                    [acc EXCEPT !.losses = @ + 1,
                                !.guesses = IF HasCountry(ds, code)
                                            THEN Append(@, [code     |-> code,
                                                            name     |-> countriesData(code).name,
                                                            correct  |-> TRUE,
                                                            revealed |-> TRUE])
                                            ELSE @,
                                !.correctGuesses = @ \cup {code},
                                !.scored = Append(@, code)])
             ELSE RevealMissing(ds, Tail(ns), acc)

\* The state of the submit() call after both loops
SubmitOutcome ==
    RevealMissing(dataset, neighbors,
        ProcessGuesses(guesses,
            [guesses            |-> guesses,
             correctGuesses     |-> correctGuesses,
             userCorrectGuesses |-> userCorrectGuesses,
             incorrectGuesses   |-> incorrectGuesses,
             gains              |-> 0,
             losses             |-> 0,
             scored             |-> <<>>]))

Min(a, b) == IF a < b THEN a ELSE b

\* How often code c occurs in the sequence s
Occurrences(s, c) == Cardinality({i \in 1..Len(s) : s[i] = c})

\* submit that raises the two flags before it looks at the guess list
submit_FlagsFirst ==
    /\ ret.op = "idle"
    /\ UNCHANGED <<ui, variantVars>>
    /\ IF Len(guesses) = 0
       THEN /\ submitted' = TRUE
            /\ revealed' = TRUE
            /\ ret' = [op |-> "submit", success |-> FALSE, error |-> "No guesses to submit"]
            /\ UNCHANGED <<dataset, targetCountryCode, neighbors, guesses, correctGuesses,
                           userCorrectGuesses, incorrectGuesses, score, lastRoundGains,
                           lastRoundLosses, round, counted, typed>>
       ELSE LET out == SubmitOutcome
            IN  /\ score + (out.gains - out.losses) \in (0 - MaxScore)..MaxScore
                /\ submitted' = TRUE
                /\ revealed' = TRUE
                /\ guesses' = out.guesses
                /\ correctGuesses' = out.correctGuesses
                /\ userCorrectGuesses' = out.userCorrectGuesses
                /\ incorrectGuesses' = out.incorrectGuesses
                /\ score' = score + (out.gains - out.losses)
                /\ lastRoundGains' = out.gains
                /\ lastRoundLosses' = out.losses
                /\ counted' = [c \in Codes |-> Min(counted[c] + Occurrences(out.scored, c), 2)]
                /\ typed' = typed
                /\ ret' = [op |-> "submit", success |-> TRUE,
                           gains |-> out.gains, losses |-> out.losses,
                           totalCorrect |-> Cardinality(out.correctGuesses),
                           totalNeighbors |-> Len(neighbors),
                           isComplete |-> TRUE]
                /\ UNCHANGED <<dataset, targetCountryCode, neighbors, round>>

\* GameState.submit
submit ==
    /\ ret.op = "idle"
    /\ UNCHANGED <<ui, variantVars>>
    /\ IF Len(guesses) = 0
       THEN /\ ret' = [op |-> "submit", success |-> FALSE, error |-> "No guesses to submit"]
            /\ UNCHANGED <<dataset, gameVars, counted, typed>>
       ELSE LET out == SubmitOutcome
            IN  /\ score + (out.gains - out.losses) \in (0 - MaxScore)..MaxScore
                /\ submitted' = TRUE
                /\ revealed' = TRUE
                /\ guesses' = out.guesses
                /\ correctGuesses' = out.correctGuesses
                /\ userCorrectGuesses' = out.userCorrectGuesses
                /\ incorrectGuesses' = out.incorrectGuesses
                /\ score' = score + (out.gains - out.losses)
                /\ lastRoundGains' = out.gains
                /\ lastRoundLosses' = out.losses
                /\ counted' = [c \in Codes |-> Min(counted[c] + Occurrences(out.scored, c), 2)]
                /\ typed' = typed
                /\ ret' = [op |-> "submit", success |-> TRUE,
                           gains |-> out.gains, losses |-> out.losses,
                           totalCorrect |-> Cardinality(out.correctGuesses),
                           totalNeighbors |-> Len(neighbors),
                           isComplete |-> TRUE]
                /\ UNCHANGED <<dataset, targetCountryCode, neighbors, round>>

\* RevealAll that pushes the missing neighbors without the correct mark
RECURSIVE RevealAll_Unmarked(_, _, _)
RevealAll_Unmarked(ds, ns, acc) ==
    IF ns = <<>> THEN acc
    ELSE LET code == Head(ns)
             pushed == IF (~\E k \in 1..Len(acc.guesses) : acc.guesses[k].code = code)
                          /\ HasCountry(ds, code)
                       THEN Append(acc.guesses, [code     |-> code,
                                                 name     |-> countriesData(code).name,
                                                 correct  |-> FALSE,
                                                 revealed |-> FALSE])
                       ELSE acc.guesses
         IN  RevealAll_Unmarked(ds, Tail(ns),
                       [guesses |-> pushed, correctGuesses |-> acc.correctGuesses \cup {code}])

\* GameState.reveal, the loop this.neighbors.forEach(...) over ns
RECURSIVE RevealAll(_, _, _)
RevealAll(ds, ns, acc) ==
    IF ns = <<>> THEN acc
    ELSE LET code == Head(ns)
             pushed == IF (~\E k \in 1..Len(acc.guesses) : acc.guesses[k].code = code)
                          /\ HasCountry(ds, code)
                       THEN Append(acc.guesses, [code     |-> code,
                                                 name     |-> countriesData(code).name,
                                                 correct  |-> TRUE,
                                                 revealed |-> FALSE])
                       ELSE acc.guesses
         IN  RevealAll(ds, Tail(ns),
                       [guesses |-> pushed, correctGuesses |-> acc.correctGuesses \cup {code}])

\* reveal that empties the round's neighbor array once it has shown them
reveal_ConsumesNeighbors ==
    /\ ret.op = "idle"
    /\ UNCHANGED <<ui, variantVars>>
    /\ LET out == RevealAll(dataset, neighbors,
                            [guesses |-> guesses, correctGuesses |-> correctGuesses])
           size == Cardinality(out.correctGuesses)
       IN  /\ revealed' = TRUE
           /\ guesses' = out.guesses
           /\ correctGuesses' = out.correctGuesses
           /\ neighbors' = <<>>
           /\ ret' = [op |-> "reveal", totalNeighbors |-> Len(neighbors),
                      revealed |-> Len(neighbors) - (size - Len(neighbors) + size)]
           /\ UNCHANGED <<dataset, targetCountryCode, userCorrectGuesses,
                          incorrectGuesses, submitted, score, lastRoundGains,
                          lastRoundLosses, round, counted, typed>>

\* GameState.reveal
reveal ==
    /\ ret.op = "idle"
    /\ UNCHANGED <<ui, variantVars>>
    /\ LET out == RevealAll(dataset, neighbors,
                            [guesses |-> guesses, correctGuesses |-> correctGuesses])
           size == Cardinality(out.correctGuesses)
       IN  /\ revealed' = TRUE
           /\ guesses' = out.guesses
           /\ correctGuesses' = out.correctGuesses
           /\ ret' = [op |-> "reveal", totalNeighbors |-> Len(neighbors),
                      revealed |-> Len(neighbors) - (size - Len(neighbors) + size)]
           /\ UNCHANGED <<dataset, targetCountryCode, neighbors, userCorrectGuesses,
                          incorrectGuesses, submitted, score, lastRoundGains,
                          lastRoundLosses, round, counted, typed>>

\* GameState.getState: the object it returns in the current state
StateSnapshot ==
    [op |-> "getState",
     targetCountryCode |-> targetCountryCode,
     neighborCount |-> Len(neighbors),
     guesses |-> guesses,
     correctCount |-> Cardinality(correctGuesses),
     submitted |-> submitted,
     revealed |-> revealed,
     score |-> score,
     lastRoundGains |-> lastRoundGains,
     lastRoundLosses |-> lastRoundLosses,
     round |-> round,
     canSubmit |-> Len(guesses) > 0 /\ ~revealed,
     progress |-> [found |-> Cardinality(userCorrectGuesses),
                   total |-> Len(neighbors)]]

\* getState whose canSubmit looks at submitted instead of revealed
getState_BySubmitted ==
    /\ ret.op = "idle"
    /\ UNCHANGED <<ui, variantVars>>
    /\ ret' = [StateSnapshot EXCEPT !.canSubmit = Len(guesses) > 0 /\ ~submitted]
    /\ UNCHANGED <<dataset, gameVars, counted, typed>>

\* getState that hands out the last-round deltas once and clears them
getState_ClearsDeltas ==
    /\ ret.op = "idle"
    /\ UNCHANGED <<ui, variantVars>>
    /\ ret' = StateSnapshot
    /\ lastRoundGains' = 0
    /\ lastRoundLosses' = 0
    /\ UNCHANGED <<dataset, targetCountryCode, neighbors, guesses, correctGuesses,
                   userCorrectGuesses, incorrectGuesses, submitted, revealed, score,
                   round, counted, typed>>

\* GameState.getState
getState ==
    /\ ret.op = "idle"
    /\ UNCHANGED <<ui, variantVars>>
    /\ ret' = StateSnapshot
    /\ UNCHANGED <<dataset, gameVars, counted, typed>>

\* nextRound that counts the round only once startNewRound() has returned
nextRound_CountsAfterStart(i) ==
    /\ ret.op = "idle"
    /\ UNCHANGED <<ui, variantVars>>
    /\ round < MaxRound
    /\ LET candidates == Candidates[dataset]
       IN  IF candidates = <<>>
           THEN /\ i = 1
                /\ ret' = [op |-> "nextRound", success |-> FALSE,
                           error |-> "No countries with neighbors available"]
                /\ UNCHANGED <<dataset, gameVars, counted, typed>>
           ELSE /\ i \in 1..Len(candidates)
                /\ round' = round + 1
                /\ targetCountryCode' = candidates[i]
                /\ neighbors' = getNeighbors(dataset, candidates[i])
                /\ guesses' = <<>>
                /\ correctGuesses' = {}
                /\ userCorrectGuesses' = {}
                /\ incorrectGuesses' = {}
                /\ submitted' = FALSE
                /\ revealed' = FALSE
                /\ lastRoundGains' = 0
                /\ lastRoundLosses' = 0
                /\ counted' = NoCount
                /\ typed' = {}
                /\ ret' = [op |-> "nextRound", success |-> TRUE]
                /\ UNCHANGED <<dataset, score>>

\* nextRound that starts the new round with a score of 0
nextRound_ResetsScore(i) ==
    /\ ret.op = "idle"
    /\ UNCHANGED <<ui, variantVars>>
    /\ round < MaxRound
    /\ round' = round + 1
    /\ LET candidates == Candidates[dataset]
       IN  IF candidates = <<>>
           THEN /\ i = 1
                /\ ret' = [op |-> "nextRound", success |-> FALSE,
                           error |-> "No countries with neighbors available"]
                /\ UNCHANGED <<dataset, targetCountryCode, neighbors, guesses,
                               correctGuesses, userCorrectGuesses, incorrectGuesses,
                               submitted, revealed, score, lastRoundGains,
                               lastRoundLosses, counted, typed>>
           ELSE /\ i \in 1..Len(candidates)
                /\ targetCountryCode' = candidates[i]
                /\ neighbors' = getNeighbors(dataset, candidates[i])
                /\ guesses' = <<>>
                /\ correctGuesses' = {}
                /\ userCorrectGuesses' = {}
                /\ incorrectGuesses' = {}
                /\ submitted' = FALSE
                /\ revealed' = FALSE
                /\ score' = 0
                /\ lastRoundGains' = 0
                /\ lastRoundLosses' = 0
                /\ counted' = NoCount
                /\ typed' = {}
                /\ ret' = [op |-> "nextRound", success |-> TRUE]
                /\ UNCHANGED dataset

\* GameState.nextRound: this.round++ and then startNewRound(), whose throw
\* leaves the increment in place
nextRound(i) ==
    /\ ret.op = "idle"
    /\ UNCHANGED <<ui, variantVars>>
    /\ round < MaxRound
    /\ round' = round + 1
    /\ LET candidates == Candidates[dataset]
       IN  IF candidates = <<>>
           THEN /\ i = 1
                /\ ret' = [op |-> "nextRound", success |-> FALSE,
                           error |-> "No countries with neighbors available"]
                /\ UNCHANGED <<dataset, targetCountryCode, neighbors, guesses,
                               correctGuesses, userCorrectGuesses, incorrectGuesses,
                               submitted, revealed, score, lastRoundGains,
                               lastRoundLosses, counted, typed>>
           ELSE /\ i \in 1..Len(candidates)
                /\ targetCountryCode' = candidates[i]
                /\ neighbors' = getNeighbors(dataset, candidates[i])
                /\ guesses' = <<>>
                /\ correctGuesses' = {}
                /\ userCorrectGuesses' = {}
                /\ incorrectGuesses' = {}
                /\ submitted' = FALSE
                /\ revealed' = FALSE
                /\ lastRoundGains' = 0
                /\ lastRoundLosses' = 0
                /\ counted' = NoCount
                /\ typed' = {}
                /\ ret' = [op |-> "nextRound", success |-> TRUE]
                /\ UNCHANGED <<dataset, score>>

\* The caller has taken the value the call returned (main.js logs it, alerts
\* or renders on it): the next call can be made
Return ==
    /\ ret.op # "idle"
    /\ UNCHANGED <<ui, variantVars>>
    /\ ret' = [op |-> "idle"]
    /\ UNCHANGED <<dataset, gameVars, counted, typed>>

\* The values Math.floor(Math.random() * candidates.length) can take (plus one);
\* with no candidate the index is never used
RandomIndexes ==
    IF Candidates[dataset] = <<>> THEN {1}
    ELSE 1..Len(Candidates[dataset])

Next ==
    \/ \E ds \in Datasets : loadGameData(ds)
    \/ loadGameDataFails
    \/ \E i \in RandomIndexes : startNewRound(i)
    \/ \E countryName \in Inputs : addGuess(countryName)
    \/ \E countryCode \in Codes : removeGuess(countryCode)
    \/ submit
    \/ reveal
    \/ getState
    \/ \E i \in RandomIndexes : nextRound(i)
    \/ Return

Spec == Init /\ [][Next]_vars

(***************************************************************************)
(* The directory on its own: searchCountries applied to every query text   *)
(* and every exclude list of the bounded sets, over each of the artifacts. *)
(***************************************************************************)
\* The texts a caller passes to searchCountries
Queries ==
    { <<>>, <<"'">>, <<" ">>,
      <<"a">>, <<"B">>, <<"á">>,
      <<"a", "b">>, <<"A", "A">>,
      <<"b", "b">>, <<" ", "b", " ", " ", "b">>,
      <<"b", "A", "b">> }

\* The arrays a caller passes as excludeCodes
ExcludeLists == UNION {[1..n -> Codes] : n \in 0..MaxExclude}

\* A call of searchCountries(query, excludeCodes)
searchCall(query, excludeCodes) ==
    /\ ret.op = "idle"
    /\ UNCHANGED <<ui, variantVars>>
    /\ ret' = [op |-> "searchCountries", query |-> query, excludeCodes |-> excludeCodes,
               threw |-> FALSE,
               results |-> searchCountries(dataset, query, excludeCodes)]
    /\ UNCHANGED <<dataset, gameVars, counted, typed>>

\* The texts a caller passes to findCountryByName
Names == UNION {[1..n -> Chars] : n \in 0..MaxNameLen}

\* A call of findCountryByName(name)
findCall(name) ==
    /\ ret.op = "idle"
    /\ UNCHANGED <<ui, variantVars>>
    /\ ret' = [op |-> "findCountryByName", name |-> name, threw |-> FALSE,
               result |-> findCountryByName(dataset, name)]
    /\ UNCHANGED <<dataset, gameVars, counted, typed>>

\* A call of getNeighbors(countryCode): neighborsData[countryCode] is a
\* TypeError while neighborsData is null
getNeighborsCall(countryCode) ==
    /\ ret.op = "idle"
    /\ UNCHANGED <<ui, variantVars>>
    /\ ret' = IF dataset = 0
              THEN [op |-> "getNeighbors", countryCode |-> countryCode, threw |-> TRUE]
              ELSE [op |-> "getNeighbors", countryCode |-> countryCode, threw |-> FALSE,
                    result |-> getNeighbors(dataset, countryCode)]
    /\ UNCHANGED <<dataset, gameVars, counted, typed>>

\* A call of getRandomCountryWithNeighbors(), Math.random picking
\* candidates[i]; "" stands for null
getRandomCountryWithNeighbors(i) ==
    /\ ret.op = "idle"
    /\ UNCHANGED <<ui, variantVars>>
    /\ LET candidates == Candidates[dataset]
       IN  IF candidates = <<>>
           THEN /\ i = 1
                /\ ret' = [op |-> "getRandomCountryWithNeighbors", threw |-> FALSE,
                           result |-> ""]
           ELSE /\ i \in 1..Len(candidates)
                /\ ret' = [op |-> "getRandomCountryWithNeighbors", threw |-> FALSE,
                           result |-> candidates[i]]
    /\ UNCHANGED <<dataset, gameVars, counted, typed>>

SearchNext ==
    \/ \E ds \in Datasets : loadGameData(ds)
    \/ loadGameDataFails
    \/ \E query \in Queries : \E excludeCodes \in ExcludeLists :
          searchCall(query, excludeCodes)
    \/ \E name \in Names : findCall(name)
    \/ \E countryCode \in Codes : getNeighborsCall(countryCode)
    \/ \E i \in RandomIndexes : getRandomCountryWithNeighbors(i)
    \/ Return

SearchSpec == Init /\ [][SearchNext]_vars

(***************************************************************************)
(* The cumulative-penalty GameState (the earlier game.js): startNewRound   *)
(* keeps incorrectGuesses, submit counts score and penalties as it goes    *)
(* and reveals nothing.  addGuess, removeGuess and reveal are the same     *)
(* code as in game.js.                                                     *)
(***************************************************************************)
\* variantStartNewRound that starts every round with an empty incorrectGuesses
variantStartNewRound_ResetsIncorrect(i) ==
    /\ ret.op = "idle"
    /\ LET candidates == Candidates[dataset]
       IN  IF candidates = <<>>
           THEN /\ i = 1
                /\ ret' = [op |-> "startNewRound", success |-> FALSE,
                           error |-> "No countries with neighbors available"]
                /\ UNCHANGED <<dataset, gameVars, counted, typed, ui, variantVars>>
           ELSE /\ i \in 1..Len(candidates)
                /\ targetCountryCode' = candidates[i]
                /\ neighbors' = getNeighbors(dataset, candidates[i])
                /\ guesses' = <<>>
                /\ correctGuesses' = {}
                /\ incorrectGuesses' = {}
                /\ submitted' = FALSE
                /\ revealed' = FALSE
                /\ counted' = NoCount
                /\ typed' = {}
                /\ ret' = [op |-> "startNewRound", success |-> TRUE]
                /\ UNCHANGED <<dataset, userCorrectGuesses, score,
                               lastRoundGains, lastRoundLosses, round, ui, variantVars>>

\* GameState.startNewRound of the cumulative-penalty variant
variantStartNewRound(i) ==
    /\ ret.op = "idle"
    /\ LET candidates == Candidates[dataset]
       IN  IF candidates = <<>>
           THEN /\ i = 1
                /\ ret' = [op |-> "startNewRound", success |-> FALSE,
                           error |-> "No countries with neighbors available"]
                /\ UNCHANGED <<dataset, gameVars, counted, typed, ui, variantVars>>
           ELSE /\ i \in 1..Len(candidates)
                /\ targetCountryCode' = candidates[i]
                /\ neighbors' = getNeighbors(dataset, candidates[i])
                /\ guesses' = <<>>
                /\ correctGuesses' = {}
                /\ submitted' = FALSE
                /\ revealed' = FALSE
                /\ counted' = NoCount
                /\ typed' = {}
                /\ ret' = [op |-> "startNewRound", success |-> TRUE]
                /\ UNCHANGED <<dataset, userCorrectGuesses, incorrectGuesses, score,
                               lastRoundGains, lastRoundLosses, round, ui, variantVars>>

\* GameState.submit of the variant, its loop: this.guesses.forEach(...) over gs
RECURSIVE VariantProcessGuesses(_, _)
VariantProcessGuesses(gs, acc) ==
    IF gs = <<>> THEN acc
    ELSE LET guess == Head(gs)
         IN  IF guess.correct
             THEN IF guess.code \notin acc.correctGuesses
                  THEN VariantProcessGuesses(Tail(gs),
                         [acc EXCEPT !.correctGuesses = @ \cup {guess.code},
                                     !.score = @ + 1,
                                     !.newCorrect = @ + 1])
                  ELSE VariantProcessGuesses(Tail(gs), acc)
             ELSE IF guess.code \notin acc.incorrectGuesses
                  THEN VariantProcessGuesses(Tail(gs),
                         [acc EXCEPT !.incorrectGuesses = @ \cup {guess.code},
                                     !.penalties = @ + 1,
                                     !.newIncorrect = @ + 1])
                  ELSE VariantProcessGuesses(Tail(gs), acc)

\* GameState.submit of the cumulative-penalty variant
variantSubmit ==
    /\ ret.op = "idle"
    /\ IF Len(guesses) = 0
       THEN /\ ret' = [op |-> "submit", success |-> FALSE, error |-> "No guesses to submit"]
            /\ UNCHANGED <<dataset, gameVars, counted, typed, ui, variantVars>>
       ELSE LET out == VariantProcessGuesses(guesses,
                          [correctGuesses |-> correctGuesses,
                           incorrectGuesses |-> incorrectGuesses,
                           score |-> score, penalties |-> penalties,
                           newCorrect |-> 0, newIncorrect |-> 0])
            IN  /\ out.score <= MaxPoints
                /\ submitted' = TRUE
                /\ correctGuesses' = out.correctGuesses
                /\ incorrectGuesses' = out.incorrectGuesses
                /\ score' = out.score
                /\ penalties' = out.penalties
                /\ submittedWrong' = submittedWrong \cup
                       {guesses[k].code : k \in {j \in 1..Len(guesses) : ~guesses[j].correct}}
                /\ ret' = [op |-> "submit", success |-> TRUE,
                           newCorrect |-> out.newCorrect,
                           newIncorrect |-> out.newIncorrect,
                           totalCorrect |-> Cardinality(out.correctGuesses),
                           totalNeighbors |-> Len(neighbors)]
                /\ UNCHANGED <<dataset, targetCountryCode, neighbors, guesses,
                               userCorrectGuesses, revealed, lastRoundGains,
                               lastRoundLosses, round, counted, typed, ui>>

\* GameState.nextRound of the variant: this.round++, then startNewRound(),
\* whose throw leaves the increment in place
variantNextRoundUpTo(i, lastRound) ==
    /\ ret.op = "idle"
    /\ round < lastRound
    /\ round' = round + 1
    /\ LET candidates == Candidates[dataset]
       IN  IF candidates = <<>>
           THEN /\ i = 1
                /\ ret' = [op |-> "nextRound", success |-> FALSE,
                           error |-> "No countries with neighbors available"]
                /\ UNCHANGED <<dataset, targetCountryCode, neighbors, guesses,
                               correctGuesses, userCorrectGuesses, incorrectGuesses,
                               submitted, revealed, score, lastRoundGains,
                               lastRoundLosses, counted, typed, ui, variantVars>>
           ELSE /\ i \in 1..Len(candidates)
                /\ targetCountryCode' = candidates[i]
                /\ neighbors' = getNeighbors(dataset, candidates[i])
                /\ guesses' = <<>>
                /\ correctGuesses' = {}
                /\ submitted' = FALSE
                /\ revealed' = FALSE
                /\ counted' = NoCount
                /\ typed' = {}
                /\ ret' = [op |-> "nextRound", success |-> TRUE]
                /\ UNCHANGED <<dataset, userCorrectGuesses, incorrectGuesses, score,
                               lastRoundGains, lastRoundLosses, ui, variantVars>>

variantNextRound(i) == variantNextRoundUpTo(i, MaxRound)

VariantNext ==
    \/ \E ds \in Datasets : loadGameData(ds)
    \/ \E i \in RandomIndexes : variantStartNewRound(i)
    \/ \E countryName \in Inputs : addGuess(countryName)
    \/ \E countryCode \in Codes : removeGuess(countryCode)
    \/ variantSubmit
    \/ reveal
    \/ \E i \in RandomIndexes : variantNextRound(i)
    \/ Return

VariantSpec == Init /\ [][VariantNext]_vars

(***************************************************************************)
(* The page: Game.init, the listeners of UIManager and the handlers of     *)
(* Game around the calls of GameState.  A handler is the call of GameState *)
(* followed by the rest of the handler, which reads the value returned;    *)
(* nothing else runs in between (every step waits for ret.op = "idle").    *)
(***************************************************************************)
\* RenderChips that gives every chip a remove button
RenderChips_AlwaysRemovable ==
    [k \in 1..Len(guesses) |->
        [code   |-> guesses[k].code,
         class  |-> IF submitted \/ revealed
                    THEN IF guesses[k].correct THEN "correct" ELSE "incorrect"
                    ELSE "",
         remove |-> TRUE]]

\* ui.js renderChips: the class of each chip and whether it has a remove button
RenderChips ==
    [k \in 1..Len(guesses) |->
        [code   |-> guesses[k].code,
         class  |-> IF submitted \/ revealed
                    THEN IF guesses[k].correct THEN "correct" ELSE "incorrect"
                    ELSE "",
         remove |-> ~(revealed \/ (submitted /\ guesses[k].correct))]]

\* ui.js renderChips followed by updateButtons
Rendered(u) ==
    [u EXCEPT !.chips = RenderChips,
              !.submitDisabled = ~StateSnapshot.canSubmit,
              !.revealDisabled = revealed,
              !.inputDisabled = revealed]

\* ui.js hideDropdown: the items and availableSuggestions stay as they are
HideDropdown(u) ==
    [u EXCEPT !.dropdownHidden = TRUE, !.selectedDropdownIndex = -1]

\* ui.js showDropdown: suggestions are the names of the search results
ShowDropdown(u, suggestions) ==
    IF suggestions = <<>>
    THEN HideDropdown([u EXCEPT !.availableSuggestions = suggestions,
                                !.dropdownItems = <<>>])
    ELSE [u EXCEPT !.availableSuggestions = suggestions,
                   !.dropdownItems = SubSeq(suggestions, 1, Min(Len(suggestions), 10)),
                   !.dropdownHidden = FALSE,
                   !.selectedDropdownIndex = -1]

\* ui.js addChipFromInput after a successful onAddGuess, and the start of
\* resetForNewRound: the input is emptied and the dropdown hidden
ClearInput(u) == HideDropdown([u EXCEPT !.inputValue = <<>>])

\* map.js init: the width and height are read from the container, which has
\* them only while the map section is shown
MapInit(u) ==
    [u EXCEPT !.mapInit = IF u.mapShown THEN "visible" ELSE "hidden"]

\* ui.js showMap and hideMap; hiding ends the period in which a measurement
\* of the shown container was taken
ShowMap(u) == [u EXCEPT !.mapShown = TRUE]

HideMap(u) ==
    [u EXCEPT !.mapShown = FALSE,
              !.mapInit = IF u.mapInit = "visible" THEN "hidden" ELSE u.mapInit]

\* map.js render draws the paths with the projection of the last init
MapRender(u, classes) ==
    [u EXCEPT !.map = classes,
              !.lastRender = IF u.mapInit = "visible" THEN "measured" ELSE "unmeasured"]

\* PathClass that looks at the correct set before the target
PathClass_CorrectFirst(code, target, correctNeighbors, allNeighbors) ==
    IF code \in correctNeighbors THEN "map-correct"
    ELSE IF code = target THEN "map-target"
    ELSE IF code \in allNeighbors THEN "map-missing"
    ELSE "map-other"

\* map.js render, .attr('class', ...): the class of a country's path next to
\* 'map-country'
PathClass(code, target, correctNeighbors, allNeighbors) ==
    IF code = target THEN "map-target"
    ELSE IF code \in correctNeighbors THEN "map-correct"
    ELSE IF code \in allNeighbors THEN "map-missing"
    ELSE "map-other"

\* map.js render, .attr('stroke-dasharray', ...): '4,4' or null
PathDashed(code, target, correctNeighbors, allNeighbors) ==
    code \in allNeighbors /\ code \notin correctNeighbors /\ code # target

\* main.js updateMap and map.js render: the class of each country's path
UpdateMap ==
    LET correctNeighbors ==
            {guesses[k].code : k \in {j \in 1..Len(guesses) :
                                         guesses[j].correct /\ ~guesses[j].revealed}}
        allNeighbors == Range(neighbors)
    IN  [code \in Codes |->
            PathClass(code, targetCountryCode, correctNeighbors, allNeighbors)]

\* Game.init: await loadGameData()
initLoad(ds) ==
    /\ ui.phase = "loading"
    /\ loadGameData(ds)

initLoadFails ==
    /\ ui.phase = "loading"
    /\ loadGameDataFails

\* initAfterLoad that goes on to construct the page when the load has failed
initAfterLoad_IgnoresFailure ==
    /\ ui.phase = "loading"
    /\ ret.op = "loadGameData"
    /\ ret' = [op |-> "idle"]
    /\ ui' = [ui EXCEPT !.phase = "constructed", !.bound = TRUE]
    /\ UNCHANGED <<dataset, gameVars, counted, typed, variantVars>>

\* Game.init after the await: new GameState and new UIManager, whose
\* constructor binds the listeners; a rejected load goes to the catch, which
\* shows the error in the loading state
initAfterLoad ==
    /\ ui.phase = "loading"
    /\ ret.op = "loadGameData"
    /\ ret' = [op |-> "idle"]
    /\ ui' = IF ret.success
             THEN [ui EXCEPT !.phase = "constructed", !.bound = TRUE]
             ELSE [ui EXCEPT !.phase = "error"]
    /\ UNCHANGED <<dataset, gameVars, counted, typed, variantVars>>

\* Game.init: this.startNewRound()
initStartRound(i) ==
    /\ ui.phase = "constructed"
    /\ startNewRound(i)

\* A suggestion of the dropdown is chosen (Enter or click): addChipFromInput
\* passes its name to handleAddGuess
chooseSuggestion(countryName) ==
    /\ ui.bound /\ ui.visible /\ ~ui.inputDisabled
    /\ addGuess(countryName)

\* The remove button of a chip is clicked: removeChip
clickRemove(countryCode) ==
    /\ ui.bound /\ ui.visible
    /\ \E k \in 1..Len(ui.chips) : ui.chips[k].code = countryCode /\ ui.chips[k].remove
    /\ removeGuess(countryCode)

\* ui.js handleKeydown, Backspace in the empty input
pressBackspace ==
    /\ ui.bound /\ ui.visible /\ ~ui.inputDisabled
    /\ Len(guesses) > 0
    /\ LET lastGuess == guesses[Len(guesses)]
       IN  /\ ~lastGuess.correct \/ ~submitted
           /\ removeGuess(lastGuess.code)

\* The submit button is clicked: handleSubmit
clickSubmit ==
    /\ ui.bound /\ ui.visible /\ ~ui.submitDisabled
    /\ submit

\* The onNextRound callback: Game.nextRound
clickNextRound(i) ==
    /\ ui.bound /\ ui.visible
    /\ nextRound(i)

\* The rest of the handler once the call of GameState has returned
AfterCall ==
    /\ ret.op \notin {"idle", "loadGameData"}
    /\ ret' = [op |-> "idle"]
    /\ ui' = CASE ret.op = "startNewRound" ->
                    \* resetForNewRound, hideLoading, init; a throw goes to the catch
                    IF ret.success
                    THEN HideMap(ClearInput([Rendered(ui) EXCEPT !.phase = "ready",
                                                                 !.visible = TRUE]))
                    ELSE [ui EXCEPT !.phase = "error"]
               [] ret.op = "addGuess" ->
                    IF ret.success THEN ClearInput(Rendered(ui)) ELSE ui
               [] ret.op = "removeGuess" -> Rendered(ui)
               [] ret.op = "submit" ->
                    IF ret.success
                    THEN MapRender(MapInit(ShowMap(Rendered(ui))), UpdateMap)
                    ELSE ui
               [] ret.op = "nextRound" ->
                    IF ret.success
                    THEN HideMap(ClearInput(Rendered(ui)))
                    ELSE ui
    /\ UNCHANGED <<dataset, gameVars, counted, typed, variantVars>>

\* main.js, the resize listener registered at the end of Game.init:
\* mapRenderer.resize() and, in a submitted or revealed round, updateMap()
windowResize_NoInit ==
    /\ ui.phase = "ready"
    /\ ret.op = "idle"
    /\ ui' = IF submitted \/ revealed THEN MapRender(ui, UpdateMap) ELSE ui
    /\ UNCHANGED <<dataset, gameVars, ret, counted, typed, variantVars>>

windowResize ==
    /\ ui.phase = "ready"
    /\ ret.op = "idle"
    /\ ui' = IF submitted \/ revealed
             THEN MapRender(MapInit(ui), UpdateMap)
             ELSE MapInit(ui)
    /\ UNCHANGED <<dataset, gameVars, ret, counted, typed, variantVars>>

AppNext ==
    \/ \E ds \in Datasets : initLoad(ds)
    \/ initLoadFails
    \/ initAfterLoad
    \/ \E i \in RandomIndexes : initStartRound(i)
    \/ \E countryName \in CanonicalNames : chooseSuggestion(countryName)
    \/ \E countryCode \in Codes : clickRemove(countryCode)
    \/ pressBackspace
    \/ clickSubmit
    \/ \E i \in RandomIndexes : clickNextRound(i)
    \/ windowResize
    \/ AfterCall

AppSpec == Init /\ [][AppNext]_vars

(***************************************************************************)
(* The confirm-based controller (the Game class with onReveal and the      *)
(* deferred confirm prompts) over the GameState of the cumulative-penalty  *)
(* variant.  ui.prompts counts the timers set by setTimeout that have not   *)
(* fired yet; a timer fires only between handlers.                         *)
(***************************************************************************)
\* updateMap of the confirm-based controller: every correct guess counts
ConfirmUpdateMap ==
    LET correctNeighbors ==
            {guesses[k].code : k \in {j \in 1..Len(guesses) : guesses[j].correct}}
        allNeighbors == Range(neighbors)
    IN  [code \in Codes |->
            PathClass(code, targetCountryCode, correctNeighbors, allNeighbors)]

\* Game.init after the await: new GameState, new UIManager, new MapRenderer
\* and mapRenderer.init()
confirmInitAfterLoad ==
    /\ ui.phase = "loading"
    /\ ret.op = "loadGameData"
    /\ ret' = [op |-> "idle"]
    /\ ui' = IF ret.success
             THEN MapInit([ui EXCEPT !.phase = "constructed", !.bound = TRUE])
             ELSE [ui EXCEPT !.phase = "error"]
    /\ UNCHANGED <<dataset, gameVars, counted, typed, variantVars>>

\* Game.init: this.startNewRound()
confirmInitStartRound(i) ==
    /\ ui.phase = "constructed"
    /\ variantStartNewRound(i)

\* The submit button is clicked: handleSubmit
confirmClickSubmit ==
    /\ ui.bound /\ ui.visible /\ ~ui.submitDisabled
    /\ ui.prompts < MaxPrompts
    /\ variantSubmit

\* The reveal button is clicked: handleReveal
confirmClickReveal ==
    /\ ui.bound /\ ui.visible /\ ~ui.revealDisabled
    /\ ui.prompts < MaxPrompts
    /\ reveal

\* A timer fires and the player accepts the prompt: Game.nextRound
promptConfirmed(i) ==
    /\ ui.prompts > 0
    /\ variantNextRoundUpTo(i, MaxConfirmRound)

\* A timer fires and the player declines the prompt
promptDeclined ==
    /\ ui.prompts > 0
    /\ ret.op = "idle"
    /\ ui' = [ui EXCEPT !.prompts = ui.prompts - 1]
    /\ UNCHANGED <<dataset, gameVars, ret, counted, typed, variantVars>>

\* The resize listener of the confirm-based controller
confirmWindowResize ==
    /\ ui.phase = "ready"
    /\ ret.op = "idle"
    /\ ui' = IF submitted \/ revealed
             THEN MapRender(MapInit(ui), ConfirmUpdateMap)
             ELSE MapInit(ui)
    /\ UNCHANGED <<dataset, gameVars, ret, counted, typed, variantVars>>

\* The rest of the handler once the call of GameState has returned
ConfirmAfterCall ==
    /\ ret.op \notin {"idle", "loadGameData"}
    /\ ret' = [op |-> "idle"]
    /\ ui' = CASE ret.op = "startNewRound" ->
                    IF ret.success
                    THEN HideMap(ClearInput([Rendered(ui) EXCEPT !.phase = "ready",
                                                                 !.visible = TRUE]))
                    ELSE [ui EXCEPT !.phase = "error"]
               [] ret.op = "addGuess" ->
                    IF ret.success THEN ClearInput(Rendered(ui)) ELSE ui
               [] ret.op = "removeGuess" -> Rendered(ui)
               [] ret.op = "submit" ->
                    \* showMap, updateMap, and the prompt of a complete round
                    IF ret.success
                    THEN LET drawn == MapRender(ShowMap(Rendered(ui)), ConfirmUpdateMap)
                         IN  IF ret.totalCorrect = ret.totalNeighbors
                             THEN [drawn EXCEPT !.prompts = ui.prompts + 1]
                             ELSE drawn
                    ELSE ui
               [] ret.op = "reveal" ->
                    [MapRender(ShowMap(Rendered(ui)), ConfirmUpdateMap)
                        EXCEPT !.prompts = ui.prompts + 1]
               [] ret.op = "nextRound" ->
                    \* the timer has fired; resetForNewRound unless nextRound threw
                    IF ret.success
                    THEN [HideMap(ClearInput(Rendered(ui))) EXCEPT !.prompts = ui.prompts - 1]
                    ELSE [ui EXCEPT !.prompts = ui.prompts - 1]
    /\ UNCHANGED <<dataset, gameVars, counted, typed, variantVars>>

ConfirmNext ==
    \/ \E ds \in Datasets : initLoad(ds)
    \/ initLoadFails
    \/ confirmInitAfterLoad
    \/ \E i \in RandomIndexes : confirmInitStartRound(i)
    \/ \E countryName \in CanonicalNames : chooseSuggestion(countryName)
    \/ \E countryCode \in Codes : clickRemove(countryCode)
    \/ pressBackspace
    \/ confirmClickSubmit
    \/ confirmClickReveal
    \/ \E i \in RandomIndexes : promptConfirmed(i)
    \/ promptDeclined
    \/ confirmWindowResize
    \/ ConfirmAfterCall

ConfirmSpec == Init /\ [][ConfirmNext]_vars

(***************************************************************************)
(* The page with the autocomplete input: the listeners of the input field  *)
(* (input, keydown), of the dropdown items and of the document, around the *)
(* controller of main.js.                                                  *)
(***************************************************************************)
\* The texts the player has in the input field after an edit
InputTexts == {<<>>, <<" ">>, <<"a">>, <<"A", "A">>}

InputEnabled == ui.bound /\ ui.visible /\ ~ui.inputDisabled

\* ui.js handleInput: the input event after the field has changed to text
handleInput(text) ==
    /\ InputEnabled
    /\ ret.op = "idle"
    /\ LET value == Trim(text)
           typedIn == [ui EXCEPT !.inputValue = text]
           excludeCodes == [k \in 1..Len(guesses) |-> guesses[k].code]
           results == searchCountries(dataset, value, excludeCodes)
       IN  ui' = IF value = <<>>
                 THEN HideDropdown(typedIn)
                 ELSE ShowDropdown(typedIn,
                        [k \in 1..Len(results) |-> countriesData(results[k].code).name])
    /\ UNCHANGED <<dataset, gameVars, ret, counted, typed, variantVars>>

\* ui.js handleKeydown, ArrowDown: the items of the dropdown are counted
\* whether or not the dropdown is hidden
pressArrowDown ==
    /\ InputEnabled
    /\ ret.op = "idle"
    /\ ui' = [ui EXCEPT !.selectedDropdownIndex =
                           Min(ui.selectedDropdownIndex + 1, Len(ui.dropdownItems) - 1)]
    /\ UNCHANGED <<dataset, gameVars, ret, counted, typed, variantVars>>

\* ui.js handleKeydown, ArrowUp
pressArrowUp ==
    /\ InputEnabled
    /\ ret.op = "idle"
    /\ ui' = [ui EXCEPT !.selectedDropdownIndex =
                           IF ui.selectedDropdownIndex - 1 > -1
                           THEN ui.selectedDropdownIndex - 1 ELSE -1]
    /\ UNCHANGED <<dataset, gameVars, ret, counted, typed, variantVars>>

\* ui.js handleKeydown, Enter: the selected item, or else the only
\* suggestion; nothing otherwise
pressEnter ==
    /\ InputEnabled
    /\ IF ui.selectedDropdownIndex >= 0 /\ ui.selectedDropdownIndex < Len(ui.dropdownItems)
       THEN addGuess(ui.dropdownItems[ui.selectedDropdownIndex + 1])
       ELSE /\ Len(ui.availableSuggestions) = 1
            /\ addGuess(ui.availableSuggestions[1])

\* ui.js handleKeydown, Escape
pressEscape ==
    /\ InputEnabled
    /\ ret.op = "idle"
    /\ ui' = HideDropdown(ui)
    /\ UNCHANGED <<dataset, gameVars, ret, counted, typed, variantVars>>

\* The click listener of the document (a click outside the input and the
\* dropdown) and the timer set by blur: hideDropdown
clickOutside ==
    /\ ui.bound
    /\ ret.op = "idle"
    /\ ui' = HideDropdown(ui)
    /\ UNCHANGED <<dataset, gameVars, ret, counted, typed, variantVars>>

\* The click listener of the k-th item of the shown dropdown
clickItem(k) ==
    /\ InputEnabled
    /\ ~ui.dropdownHidden
    /\ k \in 1..Len(ui.dropdownItems)
    /\ addGuess(ui.dropdownItems[k])

\* ui.js handleKeydown, Backspace in the empty input
keyBackspace ==
    /\ ui.inputValue = <<>>
    /\ pressBackspace

KeyboardNext ==
    \/ \E ds \in Datasets : initLoad(ds)
    \/ initLoadFails
    \/ initAfterLoad
    \/ \E i \in RandomIndexes : initStartRound(i)
    \/ \E text \in InputTexts : handleInput(text)
    \/ pressArrowDown
    \/ pressArrowUp
    \/ pressEnter
    \/ pressEscape
    \/ clickOutside
    \/ \E k \in 1..Cardinality(Codes) : clickItem(k)
    \/ keyBackspace
    \/ \E countryCode \in Codes : clickRemove(countryCode)
    \/ clickSubmit
    \/ \E i \in RandomIndexes : clickNextRound(i)
    \/ AfterCall

KeyboardSpec == Init /\ [][KeyboardNext]_vars

(***************************************************************************)
(* MapRenderer.render as a function of its three arguments, over the       *)
(* features of the world map (one per code).                               *)
(***************************************************************************)
renderCall(target, correctNeighbors, allNeighbors) ==
    /\ ret.op = "idle"
    /\ ret' = [op |-> "render",
               targetCountryCode |-> target,
               correctNeighbors |-> correctNeighbors,
               allNeighbors |-> allNeighbors,
               class |-> [code \in Codes |->
                            PathClass(code, target, correctNeighbors, allNeighbors)],
               dashed |-> [code \in Codes |->
                            PathDashed(code, target, correctNeighbors, allNeighbors)]]
    /\ UNCHANGED <<dataset, gameVars, counted, typed, ui, variantVars>>

MapNext ==
    \/ \E target \in Codes \cup {""}, correctNeighbors \in SUBSET Codes,
          allNeighbors \in SUBSET Codes :
            renderCall(target, correctNeighbors, allNeighbors)
    \/ Return

MapSpec == Init /\ [][MapNext]_vars

(***************************************************************************)
(* regions.js: the regional groupings and the filter of a country table.   *)
(* A region is its id and its countries list; countriesIsNull stands for   *)
(* a list that is null or missing (falsy), as in REGIONS.ALL.              *)
(***************************************************************************)
RegionKeys == {"ALL", "WESTERN_HEMISPHERE", "EUROPE", "MOST_DIFFICULT"}

\* REGIONS over the codes of the model; a code can be in several regions
REGIONS(key) ==
    CASE key = "ALL" ->
            [id |-> "ALL", countriesIsNull |-> TRUE, countries |-> <<>>]
      [] key = "WESTERN_HEMISPHERE" ->
            [id |-> key, countriesIsNull |-> FALSE, countries |-> <<"A", "B">>]
      [] key = "EUROPE" ->
            [id |-> key, countriesIsNull |-> FALSE, countries |-> <<"B", "C">>]
      [] key = "MOST_DIFFICULT" ->
            [id |-> key, countriesIsNull |-> FALSE, countries |-> <<"X">>]

\* Keys every object inherits: REGIONS[key] is a function or an object that
\* has no countries property
InheritedKeys == {"constructor", "toString"}

\* The ids a caller passes: the keys, an unknown id, inherited keys
RegionIds == RegionKeys \cup InheritedKeys \cup {"ATLANTIS", ""}

\* getRegion without the fallback: an unknown id gives a region of no countries
getRegion_NoFallback(regionId) ==
    IF regionId \in RegionKeys THEN REGIONS(regionId)
    ELSE [id |-> regionId, countriesIsNull |-> FALSE, countries |-> <<>>]

\* getRegion: REGIONS[regionId] || REGIONS.ALL
getRegion(regionId) ==
    IF regionId \in RegionKeys THEN REGIONS(regionId)
    ELSE IF regionId \in InheritedKeys
         THEN [id |-> "", countriesIsNull |-> TRUE, countries |-> <<>>]
         ELSE REGIONS("ALL")

\* Array.prototype.includes
ListIncludes(list, x) == \E k \in 1..Len(list) : list[k] = x

isCountryInRegion(countryCode, regionId) ==
    LET region == getRegion(regionId)
    IN  IF region.countriesIsNull THEN TRUE
        ELSE ListIncludes(region.countries, countryCode)

\* filterCountriesByRegion: a country table is a function from its codes
filterCountriesByRegion(countries, regionId) ==
    LET region == getRegion(regionId)
    IN  IF region.countriesIsNull THEN countries
        ELSE [code \in {c \in DOMAIN countries : ListIncludes(region.countries, c)}
                |-> countries[code]]

\* The country tables a caller passes
CountryTables == UNION {[S -> {"name"}] : S \in SUBSET Codes}

getRegionCall(regionId) ==
    /\ ret.op = "idle"
    /\ ret' = [op |-> "getRegion", regionId |-> regionId, region |-> getRegion(regionId)]
    /\ UNCHANGED <<dataset, gameVars, counted, typed, ui, variantVars>>

isCountryInRegionCall(countryCode, regionId) ==
    /\ ret.op = "idle"
    /\ ret' = [op |-> "isCountryInRegion", countryCode |-> countryCode,
               regionId |-> regionId,
               result |-> isCountryInRegion(countryCode, regionId)]
    /\ UNCHANGED <<dataset, gameVars, counted, typed, ui, variantVars>>

filterCall(countries, regionId) ==
    /\ ret.op = "idle"
    /\ ret' = [op |-> "filterCountriesByRegion", countries |-> countries,
               regionId |-> regionId,
               result |-> filterCountriesByRegion(countries, regionId)]
    /\ UNCHANGED <<dataset, gameVars, counted, typed, ui, variantVars>>

RegionNext ==
    \/ \E regionId \in RegionIds : getRegionCall(regionId)
    \/ \E countryCode \in Codes, regionId \in RegionIds :
            isCountryInRegionCall(countryCode, regionId)
    \/ \E countries \in CountryTables, regionId \in RegionIds :
            filterCall(countries, regionId)
    \/ Return

RegionSpec == Init /\ [][RegionNext]_vars

(***************************************************************************)
(* Vocabulary of the properties.                                           *)
(***************************************************************************)
AnswerSet == Range(neighbors)

HasGuess(gs, code) == \E k \in 1..Len(gs) : gs[k].code = code

\* The round's answer-set codes all exist in the country table
AnswerSetInTable == \A c \in AnswerSet : HasCountry(dataset, c)

\* The last call was a submit() that succeeded / failed
SubmitSucceeded == ret.op = "submit" /\ ret.success
SubmitFailed == ret.op = "submit" /\ ~ret.success

\* A guess is locked once the round has been submitted and the guess is correct
Locked(g) == submitted /\ g.correct

\* A round has been started (startNewRound has succeeded at least once)
RoundStarted == targetCountryCode # ""

(***************************************************************************)
(* C1.  After a successful submit() of a round whose answer-set codes all  *)
(* exist in the country table, the returned totalCorrect equals the size   *)
(* of the answer set (totalNeighbors) and every code of the answer set has *)
(* a guess in the list that is marked correct.                             *)
(***************************************************************************)
C1_SubmitResolvesRound ==
    (SubmitSucceeded /\ AnswerSetInTable) =>
        /\ ret.totalCorrect = Cardinality(AnswerSet)
        /\ ret.totalCorrect = ret.totalNeighbors
        /\ \A c \in AnswerSet :
              \E k \in 1..Len(guesses) : guesses[k].code = c /\ guesses[k].correct

\* a submit that both credited a guess of the player and revealed a missed neighbor
C1_Witness ==
    /\ SubmitSucceeded /\ AnswerSetInTable
    /\ Cardinality(AnswerSet) = 2
    /\ \E k \in 1..Len(guesses) : guesses[k].correct /\ guesses[k].revealed
    /\ \E k \in 1..Len(guesses) : guesses[k].correct /\ ~guesses[k].revealed

(***************************************************************************)
(* C2.  A successful first submit() of a round changes score by exactly    *)
(* gains - losses, where gains is the number of player guesses whose code  *)
(* is in the answer set and losses is the number of player guesses whose   *)
(* code is not, plus the number of answer-set codes that had no guess at   *)
(* submit time; the returned gains and losses are these two numbers.       *)
(***************************************************************************)
GuessedNeighbors == {c \in typed : c \in AnswerSet}
WrongGuesses == {c \in typed : c \notin AnswerSet}
MissedNeighbors == {c \in AnswerSet : ~HasGuess(guesses, c)}

FirstSubmitScores ==
    (RoundStarted /\ ~submitted /\ ret'.op = "submit" /\ ret'.success) =>
        /\ ret'.gains = Cardinality(GuessedNeighbors)
        /\ ret'.losses = Cardinality(WrongGuesses) + Cardinality(MissedNeighbors)
        /\ score' = score + ret'.gains - ret'.losses

C2_Original == [][FirstSubmitScores]_vars

(***************************************************************************)
(* C3.  Within one round every country code is counted at most once        *)
(* towards the score (one gain or one loss), however often submit runs;    *)
(* stated for the rounds whose answer-set codes all exist in the country   *)
(* table.                                                                  *)
(***************************************************************************)
C3_Original ==
    (RoundStarted /\ AnswerSetInTable) => \A c \in Codes : counted[c] <= 1

(***************************************************************************)
(* C4.  A submit() issued after the round has been submitted fails and     *)
(* changes neither score nor the guess list.                               *)
(***************************************************************************)
C4_Original ==
    [][(RoundStarted /\ submitted /\ ret'.op = "submit") =>
          (~ret'.success /\ score' = score /\ guesses' = guesses)]_vars

(***************************************************************************)
(* C5.  After the round has been submitted, addGuess fails for any input   *)
(* and the guess list is unchanged.                                        *)
(***************************************************************************)
C5_Original ==
    [][(RoundStarted /\ submitted /\ ret'.op = "addGuess") =>
          (~ret'.success /\ guesses' = guesses)]_vars

(***************************************************************************)
(* C6.  removeGuess(code) on a locked guess (a correct guess of the player *)
(* in a round that has been submitted) fails and the guess remains in the  *)
(* guess list.                                                             *)
(***************************************************************************)
C6_Original ==
    [][\A c \in Codes :
          (/\ RoundStarted
           /\ removeGuess(c)
           /\ \E k \in 1..Len(guesses) :
                 guesses[k].code = c /\ Locked(guesses[k]) /\ ~guesses[k].revealed)
          => (ret'.value = FALSE /\ HasGuess(guesses', c))]_vars

(***************************************************************************)
(* C7.  submit() called while the guess list is empty fails and changes    *)
(* nothing: submitted and revealed keep their values (false in a round     *)
(* that is being guessed), as do score, guesses and all counters.          *)
(***************************************************************************)
C7_EmptySubmitFails ==
    [][(ret'.op = "submit" /\ Len(guesses) = 0) =>
          (~ret'.success /\ UNCHANGED gameVars)]_vars

\* an empty submit has failed in a started round that is still being guessed
C7_Witness ==
    /\ SubmitFailed
    /\ targetCountryCode # ""
    /\ guesses = <<>>
    /\ ~submitted /\ ~revealed

(***************************************************************************)
(* C8.  addGuess(text) with a text that resolves to no country fails with  *)
(* 'Country not found' and leaves the whole round state unchanged.         *)
(***************************************************************************)
C8_UnknownCountryRejected ==
    [][\A t \in Inputs :
          (addGuess(t) /\ Resolved[dataset][t] = "")
          => /\ ret'.op = "addGuess" /\ ~ret'.success
             /\ ret'.error = "Country not found"
             /\ UNCHANGED gameVars]_vars

\* an unknown text was rejected while data is loaded and guesses exist
C8_Witness ==
    /\ ret.op = "addGuess" /\ ~ret.success /\ ret.error = "Country not found"
    /\ dataset # 0
    /\ guesses # <<>>

(***************************************************************************)
(* C9.  addGuess(text) fails with 'Already guessed' and leaves the guess   *)
(* list unchanged whenever text resolves, by canonical name or by alias,   *)
(* to a code that already has a guess in the current round.                *)
(***************************************************************************)
C9_DuplicateRejected ==
    [][\A t \in Inputs :
          (addGuess(t) /\ HasGuess(guesses, Resolved[dataset][t]))
          => /\ ret'.op = "addGuess" /\ ~ret'.success
             /\ ret'.error = "Already guessed"
             /\ guesses' = guesses]_vars

\* a duplicate was rejected while both A (reachable by name and by alias) and
\* C (reachable by alias only) have a guess
C9_Witness ==
    /\ ret.op = "addGuess" /\ ~ret.success /\ ret.error = "Already guessed"
    /\ HasGuess(guesses, "A") /\ HasGuess(guesses, "C")

(***************************************************************************)
(* C10.  The guess list never holds two guesses with the same code, and    *)
(* guesses stay in insertion order: removeGuess keeps the relative order   *)
(* of the remaining guesses, submit and reveal only append synthesized     *)
(* guesses after the existing ones.                                        *)
(***************************************************************************)
NoDuplicateGuesses ==
    \A i, j \in 1..Len(guesses) : guesses[i].code = guesses[j].code => i = j

IsPrefix(s, t) == Len(s) <= Len(t) /\ SubSeq(t, 1, Len(s)) = s

OrderKept ==
    CASE ret'.op \in {"startNewRound", "nextRound"} ->
            guesses' = <<>> \/ guesses' = guesses
      [] ret'.op = "removeGuess" ->
            \/ guesses' = guesses
            \/ \E i \in 1..Len(guesses) :
                  guesses' = SubSeq(guesses, 1, i - 1) \o SubSeq(guesses, i + 1, Len(guesses))
      [] ret'.op = "addGuess" ->
            IsPrefix(guesses, guesses') /\ Len(guesses') <= Len(guesses) + 1
      [] ret'.op \in {"submit", "reveal"} ->
            /\ IsPrefix(guesses, guesses')
            /\ \A k \in (Len(guesses) + 1)..Len(guesses') :
                  /\ guesses'[k].correct
                  /\ guesses'[k].code \in AnswerSet
                  /\ ~HasGuess(guesses, guesses'[k].code)
      [] OTHER -> guesses' = guesses

C10_UniqueAndOrdered == []NoDuplicateGuesses /\ [][OrderKept]_vars

\* a removal from the middle has left a guess of the player followed by a
\* guess that submit appended
C10_Witness ==
    /\ ret.op = "removeGuess" /\ ret.value
    /\ Len(guesses) = 2
    /\ ~guesses[1].revealed /\ guesses[2].revealed

(***************************************************************************)
(* C11.  The correct flag of a guess is fixed when the guess is added: in  *)
(* every reachable state the flag of each guess equals the membership of   *)
(* its code in the answer set of the current round, and no operation that  *)
(* leaves the guess in the list (addGuess, removeGuess of another guess,   *)
(* submit, reveal, getState) changes it.                                   *)
(***************************************************************************)
FlagIsMembership ==
    \A k \in 1..Len(guesses) : guesses[k].correct = (guesses[k].code \in AnswerSet)

FlagKept ==
    \A i \in 1..Len(guesses) : \A j \in 1..Len(guesses') :
        guesses'[j].code = guesses[i].code => guesses'[j].correct = guesses[i].correct

C11_CorrectFlagFixed == []FlagIsMembership /\ [][FlagKept]_vars

\* a submit has passed over a right and a wrong guess of the player and has
\* appended a missed neighbor
C11_Witness ==
    /\ SubmitSucceeded
    /\ \E k \in 1..Len(guesses) : guesses[k].correct /\ ~guesses[k].revealed
    /\ \E k \in 1..Len(guesses) : ~guesses[k].correct
    /\ \E k \in 1..Len(guesses) : guesses[k].revealed

(***************************************************************************)
(* C12.  Finalization is irreversible within a round: a successful         *)
(* submit() leaves submitted true, and submitted stays true under addGuess,*)
(* removeGuess, submit, reveal and getState; it becomes false again only   *)
(* through a startNewRound/nextRound that starts a round.                  *)
(***************************************************************************)
FinalizationStep ==
    /\ (ret'.op = "submit" /\ ret'.success) => submitted'
    /\ (submitted /\ ~submitted') =>
          (ret'.op \in {"startNewRound", "nextRound"} /\ ret'.success)

C12_FinalizationIrreversible == [][FinalizationStep]_vars

\* a guess has been removed from a finalized round, which is still finalized
C12_Witness ==
    /\ submitted
    /\ ret.op = "removeGuess" /\ ret.value
    /\ RoundStarted

(***************************************************************************)
(* C13.  startNewRound is valid in every state of a round and always       *)
(* yields a fresh round that is being guessed: whenever the directory has  *)
(* an eligible country, a startNewRound (also the one inside nextRound)    *)
(* succeeds, and afterwards the guess list is empty, submitted and         *)
(* revealed are false, the per-round sets and the last-round deltas are    *)
(* cleared, and the answer set is getNeighbors of the newly drawn target.  *)
(* (The directory without an eligible country is the case of C14.)         *)
(***************************************************************************)
StartsFreshRound ==
    (ret'.op \in {"startNewRound", "nextRound"} /\ Candidates[dataset] # <<>>) =>
        /\ ret'.success
        /\ guesses' = <<>>
        /\ ~submitted' /\ ~revealed'
        /\ correctGuesses' = {} /\ userCorrectGuesses' = {} /\ incorrectGuesses' = {}
        /\ lastRoundGains' = 0 /\ lastRoundLosses' = 0
        /\ targetCountryCode' \in Range(Candidates[dataset])
        /\ neighbors' = getNeighbors(dataset, targetCountryCode')

C13_StartRoundResets == [][StartsFreshRound]_vars

\* a round has been started in a state that a submit had finalized and scored
C13_Witness ==
    /\ ret.op = "startNewRound" /\ ret.success
    /\ score # 0
    /\ guesses = <<>> /\ ~submitted /\ ~revealed

(***************************************************************************)
(* C14.  getRandomCountryWithNeighbors never returns a country whose       *)
(* neighbor list is empty, so the answer set of every round is non-empty;  *)
(* when no country is eligible it returns null and startNewRound throws    *)
(* instead of starting a round (inside nextRound too, where only the round *)
(* counter has moved).                                                     *)
(***************************************************************************)
NeverAnIsland ==
    /\ \A i \in 1..Len(Candidates[dataset]) :
          getNeighbors(dataset, Candidates[dataset][i]) # <<>>
    /\ RoundStarted => AnswerSet # {}

NoEligibleFails ==
    (ret'.op \in {"startNewRound", "nextRound"} /\ Candidates[dataset] = <<>>) =>
        /\ ~ret'.success
        /\ UNCHANGED <<targetCountryCode, neighbors, guesses, correctGuesses,
                       userCorrectGuesses, incorrectGuesses, submitted, revealed,
                       score, lastRoundGains, lastRoundLosses>>
        /\ ret'.op = "startNewRound" => round' = round

C14_NeverIsland == []NeverAnIsland /\ [][NoEligibleFails]_vars

\* a round has been drawn from artifacts that hold an island (C) and a code
\* with neighbors that is no country (X)
C14_Witness ==
    /\ dataset = 2
    /\ ret.op = "startNewRound" /\ ret.success
    /\ RoundStarted /\ AnswerSet # {}

(***************************************************************************)
(* C15.  round is 1 after construction and until the first nextRound();    *)
(* every nextRound() call increases it by exactly 1, whether or not the    *)
(* new round could be started, and no other operation changes it: round is *)
(* 1 plus the number of nextRound calls and never decreases.               *)
(***************************************************************************)
RoundStep == IF ret'.op = "nextRound" THEN round' = round + 1 ELSE round' = round

C15_RoundCounter == (round = 1) /\ [](round >= 1) /\ [][RoundStep]_vars

\* nextRound has started the second round
C15_Witness ==
    /\ ret.op = "nextRound" /\ ret.success
    /\ round = 2
    /\ RoundStarted /\ guesses = <<>>

(***************************************************************************)
(* C16.  score is changed by a successful submit() only: addGuess,         *)
(* removeGuess, reveal, getState, startNewRound and nextRound leave it as  *)
(* it is, so the score of earlier rounds is carried into every later one.  *)
(***************************************************************************)
ScoreStep == score' # score => (ret'.op = "submit" /\ ret'.success)

C16_ScoreOnlyBySubmit == [][ScoreStep]_vars

\* nextRound has started a round and the score of the earlier round is there
C16_Witness ==
    /\ ret.op = "nextRound" /\ ret.success
    /\ score # 0
    /\ round > 1

PureRead ==
    /\ ret'.op = "getState" =>
          /\ UNCHANGED <<dataset, gameVars>>
          /\ ret' = StateSnapshot
          /\ ret' = StateSnapshot'
    /\ ret'.op = "idle" => UNCHANGED <<dataset, gameVars>>

C18_GetStatePure == [][PureRead]_vars

\* the state of a round that a submit has scored with a gain has been read
C18_Witness ==
    /\ ret.op = "getState"
    /\ ret.submitted /\ ret.lastRoundGains > 0
    /\ ret.guesses = guesses /\ guesses # <<>>

(***************************************************************************)
(* Vocabulary of the search properties.                                    *)
(***************************************************************************)
SearchReturned == ret.op = "searchCountries"

ResultCodes == {ret.results[k].code : k \in 1..Len(ret.results)}

\* The countries of the loaded table, outside excludeCodes, whose normalized
\* name or one of whose normalized aliases contains the normalized query
Matching ==
    {code \in Range(CountryKeys(dataset)) \ Range(ret.excludeCodes) :
        \/ Includes(normalizeName(countriesData(code).name), normalizeName(ret.query))
        \/ \E i \in 1..Len(countriesData(code).aliases) :
              Includes(normalizeName(countriesData(code).aliases[i]),
                       normalizeName(ret.query))}

(***************************************************************************)
(* C19.  searchCountries(query, excludeCodes) never returns a country      *)
(* whose code is in excludeCodes, for every query and every exclude list   *)
(* (the list of the codes of the current guesses, which the autocomplete   *)
(* passes, is one of them).                                                *)
(***************************************************************************)
C19_SearchExcludes ==
    SearchReturned => ResultCodes \cap Range(ret.excludeCodes) = {}

\* a search has returned a country while it left out an excluded country that
\* matches the query
C19_Witness ==
    /\ SearchReturned
    /\ ret.results # <<>>
    /\ \E code \in Range(ret.excludeCodes) :
          /\ HasCountry(dataset, code)
          /\ MatchType(code, normalizeName(ret.query)) # ""

(***************************************************************************)
(* C20.  As claimed: for every query, those that normalize to the empty    *)
(* string included, searchCountries returns exactly the non-excluded       *)
(* countries whose normalized name or one of whose normalized aliases      *)
(* contains the normalized query, each of them once.                       *)
(***************************************************************************)
C20_Original ==
    SearchReturned =>
        /\ ResultCodes = Matching
        /\ Len(ret.results) = Cardinality(Matching)

(***************************************************************************)
(* C20, amended.  For every non-empty query text, those that normalize to  *)
(* the empty string included, searchCountries returns exactly the          *)
(* non-excluded countries whose normalized name or one of whose normalized *)
(* aliases contains the normalized query, each of them once; for the empty *)
(* text it returns no country.                                             *)
(***************************************************************************)
C20_SearchContents ==
    SearchReturned =>
        IF ret.query = <<>>
        THEN ret.results = <<>>
        ELSE /\ ResultCodes = Matching
             /\ Len(ret.results) = Cardinality(Matching)

\* a text of punctuation only, which normalizes to the empty string, has
\* returned the two countries that are not excluded
C20_Witness ==
    /\ SearchReturned
    /\ ret.query # <<>> /\ normalizeName(ret.query) = <<>>
    /\ Range(ret.excludeCodes) \cap Range(CountryKeys(dataset)) # {}
    /\ Len(ret.results) = 2

(***************************************************************************)
(* C21.  In the list searchCountries returns, every country whose          *)
(* normalized name equals the normalized query stands before every other   *)
(* match, and the other matches stand in ascending order of the length of  *)
(* their normalized name.                                                  *)
(***************************************************************************)
ResultName(k) == normalizeName(countriesData(ret.results[k].code).name)

ExactAt(k) == ResultName(k) = normalizeName(ret.query)

C21_SearchOrder ==
    SearchReturned =>
        \A i, j \in 1..Len(ret.results) :
            i < j =>
                /\ ExactAt(j) => ExactAt(i)
                /\ (~ExactAt(i) /\ ~ExactAt(j)) => Len(ResultName(i)) <= Len(ResultName(j))

\* a search has put the exact match, which is later in the table and has the
\* longer name, before a country matched through an alias
C21_Witness ==
    /\ SearchReturned
    /\ Len(ret.results) >= 2
    /\ ExactAt(1) /\ ~ExactAt(2)
    /\ Len(ResultName(2)) < Len(ResultName(1))
    /\ \E i, j \in 1..Len(CountryKeys(dataset)) :
          /\ i < j
          /\ CountryKeys(dataset)[j] = ret.results[1].code
          /\ CountryKeys(dataset)[i] = ret.results[2].code

(***************************************************************************)
(* Vocabulary of the name properties: the texts that differ from s in one  *)
(* place only, by the case of a letter, by an accent, by a punctuation     *)
(* character, or by a blank at an end or next to a blank.                  *)
(***************************************************************************)
FindReturned == ret.op = "findCountryByName"

InsertAt(s, i, c) == SubSeq(s, 1, i) \o <<c>> \o SubSeq(s, i + 1, Len(s))

ReplaceAt(s, i, r) == SubSeq(s, 1, i - 1) \o r \o SubSeq(s, i + 1, Len(s))

SameLetter(c, d) == {c, d} = {"a", "A"} \/ {c, d} = {"b", "B"}

Punctuation == {"'", "_"}

CaseVariants(s) ==
    {ReplaceAt(s, p[1], <<p[2]>>) :
        p \in {q \in (1..Len(s)) \X Chars : SameLetter(s[q[1]], q[2])}}

AccentVariants(s) ==
    {ReplaceAt(s, i, <<"a">>) : i \in {j \in 1..Len(s) : s[j] = "á"}}
    \cup {ReplaceAt(s, i, <<"a", "´">>) : i \in {j \in 1..Len(s) : s[j] = "á"}}
    \cup {ReplaceAt(s, i, <<"á">>) : i \in {j \in 1..Len(s) : s[j] = "a"}}
    \cup {InsertAt(s, i, "´") : i \in 0..Len(s)}

PunctuationVariants(s, marks) ==
    {InsertAt(s, p[1], p[2]) : p \in (0..Len(s)) \X marks}

WhitespaceVariants(s) ==
    {InsertAt(s, i, " ") :
        i \in {j \in 0..Len(s) :
                  \/ j = 0 \/ j = Len(s)
                  \/ s[j] = " " \/ s[j + 1] = " "}}

(***************************************************************************)
(* C22.  As claimed: two texts that differ only by the case of a letter,   *)
(* by an accent or combining mark, by a punctuation character, or by       *)
(* surrounding or repeated whitespace resolve to the same country, or both *)
(* to none.  (Stated for one such difference; a chain of them follows.)    *)
(***************************************************************************)
C22_Original ==
    FindReturned =>
        \A t \in CaseVariants(ret.name) \cup AccentVariants(ret.name)
                 \cup PunctuationVariants(ret.name, Punctuation)
                 \cup WhitespaceVariants(ret.name) :
            findCountryByName(dataset, t) = ret.result

\* The same with every punctuation character but the underscore
InsensitiveButForUnderscore ==
    FindReturned =>
        \A t \in CaseVariants(ret.name) \cup AccentVariants(ret.name)
                 \cup PunctuationVariants(ret.name, Punctuation \ {"_"})
                 \cup WhitespaceVariants(ret.name) :
            findCountryByName(dataset, t) = ret.result

(***************************************************************************)
(* C23.  As claimed: loadGameData fails on artifacts whose adjacency table *)
(* names a code that the country table does not have, so that data.js      *)
(* never holds such artifacts and no round is started on them.             *)
(***************************************************************************)
\* every key and every neighbor of the adjacency table is in the country table
AdjacencyCodesKnown(ds) ==
    \A k \in 1..Len(NeighborKeys(ds)) :
        /\ HasCountry(ds, NeighborKeys(ds)[k])
        /\ \A c \in Range(neighborsData(ds, NeighborKeys(ds)[k])) : HasCountry(ds, c)

C23_Original ==
    /\ dataset # 0 => AdjacencyCodesKnown(dataset)
    /\ RoundStarted => AdjacencyCodesKnown(dataset)

(***************************************************************************)
(* C24.  As claimed, for the operations of the directory: getNeighbors,    *)
(* findCountryByName, searchCountries and getRandomCountryWithNeighbors,   *)
(* called before loadGameData has stored the tables, fail with an error    *)
(* and do not return a value.                                              *)
(***************************************************************************)
DirectoryOps ==
    {"getNeighbors", "findCountryByName", "searchCountries",
     "getRandomCountryWithNeighbors"}

C24_Original ==
    (dataset = 0 /\ ret.op \in DirectoryOps) => ret.threw

(***************************************************************************)
(* C25.  On the page no user command (addGuess, removeGuess, submit,       *)
(* nextRound) is processed before loadGameData has stored the tables;      *)
(* while the tables are not stored, and so for ever after a failed load,   *)
(* no listener is bound and no round is started.                           *)
(***************************************************************************)
UserCommands == {"addGuess", "removeGuess", "submit", "nextRound"}

CommandAfterLoad == ret'.op \in UserCommands => dataset # 0 /\ ui.bound

NothingWithoutData == dataset = 0 => ~ui.bound /\ ~RoundStarted

LoadFailureIsFinal == ui.phase = "error" /\ dataset = 0 => dataset' = 0

C25_StartupOrder ==
    []NothingWithoutData /\ [][CommandAfterLoad /\ LoadFailureIsFinal]_vars

\* a user command is being processed on the loaded page
C25_Witness ==
    /\ ret.op \in UserCommands
    /\ ui.bound /\ dataset # 0

\* the load has failed and the page shows the error
LoadHasFailed ==
    /\ ui.phase = "error" /\ dataset = 0

(***************************************************************************)
(* C26.  removeGuess(code) for a code that has no guess in the list        *)
(* returns false and leaves the state unchanged; for a code that has an    *)
(* unlocked guess it returns true and removes that guess and no other: the *)
(* other guesses stay, in their order, and nothing else changes.           *)
(***************************************************************************)
RemoveStep(c) ==
    IF ~HasGuess(guesses, c)
    THEN ret'.value = FALSE /\ UNCHANGED gameVars
    ELSE (\E k \in 1..Len(guesses) : guesses[k].code = c /\ ~Locked(guesses[k]))
         => /\ ret'.value = TRUE
            /\ Len(guesses') = Len(guesses) - 1
            /\ guesses' = SelectSeq(guesses, LAMBDA g : g.code # c)
            /\ UNCHANGED <<targetCountryCode, neighbors, correctGuesses,
                           userCorrectGuesses, incorrectGuesses, submitted, revealed,
                           score, lastRoundGains, lastRoundLosses, round>>

C26_RemoveGuess ==
    [][\A c \in Codes : removeGuess(c) => RemoveStep(c)]_vars

\* removeGuess has returned false for a code without a guess while the list
\* holds other guesses
C26_Witness ==
    /\ ret.op = "removeGuess" /\ ret.value = FALSE
    /\ RoundStarted
    /\ guesses # <<>>

(***************************************************************************)
(* C27.  The target and the answer set of a round are fixed when the round *)
(* starts: the answer set is the table's entry for the target, only a      *)
(* successful startNewRound or nextRound changes either of them (addGuess, *)
(* removeGuess, submit, reveal and getState never do), and only            *)
(* loadGameData changes the tables that data.js holds.                     *)
(***************************************************************************)
AnswerSetFromTable ==
    RoundStarted => neighbors = getNeighbors(dataset, targetCountryCode)

RoundFrame ==
    /\ (targetCountryCode' # targetCountryCode \/ neighbors' # neighbors)
          => ret'.op \in {"startNewRound", "nextRound"} /\ ret'.success
    /\ ret'.op \in {"addGuess", "removeGuess", "submit", "reveal", "getState"}
          => UNCHANGED <<targetCountryCode, neighbors, dataset>>
    /\ dataset' # dataset => ret'.op = "loadGameData" /\ ret'.success

C27_TargetAndAnswersFixed == []AnswerSetFromTable /\ [][RoundFrame]_vars

\* a submit has appended the missed neighbors to the guess list of a round
\* whose answer set has more than one code
C27_Witness ==
    /\ SubmitSucceeded
    /\ Len(neighbors) > 1
    /\ \E k \in 1..Len(guesses) : guesses[k].revealed

(***************************************************************************)
(* C28.  On the page, once the round has been submitted a correct guess is *)
(* locked: neither the remove button of its chip nor Backspace in the      *)
(* empty input issues removeGuess for it; an incorrect guess has a remove  *)
(* button as long as the round is not revealed.                            *)
(***************************************************************************)
PageIdle == ret.op = "idle" /\ ui.phase = "ready"

NoRemovalOfLocked ==
    \A c \in Codes :
        (removeGuess(c) /\ HasGuess(guesses, c))
        => \A k \in 1..Len(guesses) : guesses[k].code = c => ~Locked(guesses[k])

IncorrectRemovable ==
    PageIdle =>
        \A k \in 1..Len(guesses) :
            (~guesses[k].correct /\ ~revealed)
            => \E j \in 1..Len(ui.chips) :
                  ui.chips[j].code = guesses[k].code /\ ui.chips[j].remove

IncorrectChipShown ==
    /\ PageIdle /\ ~revealed
    /\ \E k \in 1..Len(guesses) : ~guesses[k].correct /\ ui.chips[k].remove

(***************************************************************************)
(* C29.  In the cumulative-penalty variant penalties is, in every          *)
(* reachable state, the number of distinct codes that a submit of the      *)
(* session has found incorrect (a code is penalised the first time only,   *)
(* in whatever round it comes again), and no step lowers penalties or      *)
(* score.                                                                  *)
(***************************************************************************)
PenaltiesCountDistinct == penalties = Cardinality(submittedWrong)

NeverDecrease == penalties' >= penalties /\ score' >= score

C29_CumulativePenalties == []PenaltiesCountDistinct /\ [][NeverDecrease]_vars

\* in the second round a submit has found an incorrect guess that had been
\* penalised before, and has not penalised it again
C29_Witness ==
    /\ SubmitSucceeded
    /\ round = 2
    /\ ret.newIncorrect = 0
    /\ penalties >= 1
    /\ \E k \in 1..Len(guesses) : ~guesses[k].correct

(***************************************************************************)
(* C30.  As claimed: once the round is submitted and the map is shown, the *)
(* chip and the map agree on every country of the guess list: a neighbor   *)
(* the player guessed is correct on both, a neighbor that submit revealed  *)
(* is missing on the map and not correct on its chip, a wrong guess is     *)
(* incorrect on its chip and not correct on the map.                       *)
(***************************************************************************)
C30_Original ==
    (PageIdle /\ submitted /\ ui.mapShown) =>
        \A k \in 1..Len(guesses) :
            LET g == guesses[k]
                chip == ui.chips[k]
            IN  /\ chip.code = g.code
                /\ (g.correct /\ ~g.revealed)
                      => chip.class = "correct" /\ ui.map[g.code] = "map-correct"
                /\ g.revealed
                      => chip.class # "correct" /\ ui.map[g.code] = "map-missing"
                /\ ~g.correct
                      => chip.class = "incorrect" /\ ui.map[g.code] # "map-correct"

\* The same without the demand on the chip of a revealed neighbor
FeedbackButForRevealedChip ==
    (PageIdle /\ submitted /\ ui.mapShown) =>
        \A k \in 1..Len(guesses) :
            LET g == guesses[k]
                chip == ui.chips[k]
            IN  /\ chip.code = g.code
                /\ (g.correct /\ ~g.revealed)
                      => chip.class = "correct" /\ ui.map[g.code] = "map-correct"
                /\ g.revealed => ui.map[g.code] = "map-missing"
                /\ ~g.correct
                      => chip.class = "incorrect" /\ ui.map[g.code] # "map-correct"

\* C31: every drawing of the map uses dimensions that MapRenderer.init
\* measured while the map container was shown and has not been hidden since.
\* The confirm-based controller measures once at start-up, with the container
\* hidden, and draws after submit and reveal without measuring again.
C31_Original == ui.lastRender # "unmeasured"

\* The controller of main.js has drawn the map, every time after measuring
MapDrawnMeasured == ui.lastRender = "measured"

\* C36: in the confirm-based controller the deferred prompts advance the game
\* by at most one round per played round: the round number goes up only from
\* a round in which the player has submitted or revealed.  Two prompts set in
\* the same round (two complete submits, or a complete submit and a reveal)
\* are both still pending after the first has started the next round.
C36_Original == [][round' > round => (submitted \/ revealed)]_vars

\* The codes updateMap hands to the map as correctly guessed
MapCorrect == {c \in Codes : UpdateMap[c] = "map-correct"}

\* C32: in a submitted round, whatever commands follow, the codes the map
\* highlights as correctly guessed are the codes counted by progress.found
\* (userCorrectGuesses), and every other answer-set code is highlighted as
\* missing.  removeGuess has no lock: it takes a counted guess out of the
\* list the map is computed from and leaves userCorrectGuesses alone.
C32_Original ==
    submitted =>
        /\ MapCorrect = userCorrectGuesses
        /\ \A c \in AnswerSet \ userCorrectGuesses : UpdateMap[c] = "map-missing"

\* The codes that entered correctGuesses by a reveal and not by a scored guess
AutoRevealed == correctGuesses \ userCorrectGuesses

\* C33: an auto-revealed neighbor never earns points.  Within a round, a code
\* that submit or reveal has put into correctGuesses without counting it for
\* the player is never added to the player's found count, and the gains of a
\* submit are exactly the codes it adds to that count.
C33_RevealedNeverScores ==
    [][ret'.op \notin {"startNewRound", "nextRound"} =>
          /\ \A c \in AutoRevealed : c \notin userCorrectGuesses'
          /\ (ret'.op = "submit" /\ ret'.success) =>
                ret'.gains = Cardinality(userCorrectGuesses' \ userCorrectGuesses)]_vars

\* A submit has returned with a guess typed by the player whose code had
\* been revealed before
C33_Witness ==
    /\ SubmitSucceeded
    /\ \E k \in 1..Len(guesses) :
          /\ guesses[k].code \in typed \cap AutoRevealed
          /\ guesses[k].correct /\ ~guesses[k].revealed

\* C34: in every state userCorrectGuesses is a subset of correctGuesses,
\* correctGuesses is a subset of the round's answer set, and incorrectGuesses
\* is disjoint from the answer set; hence progress.found <= correctCount <=
\* progress.total.
C34_SetsNested ==
    /\ userCorrectGuesses \subseteq correctGuesses
    /\ correctGuesses \subseteq AnswerSet
    /\ incorrectGuesses \cap AnswerSet = {}
    /\ StateSnapshot.progress.found <= StateSnapshot.correctCount
    /\ StateSnapshot.correctCount <= StateSnapshot.progress.total

\* A submit has scored a correct and a wrong guess and revealed a missed
\* neighbor: the three sets are non-empty and the inclusions are proper
C34_Witness ==
    /\ SubmitSucceeded
    /\ userCorrectGuesses # {}
    /\ userCorrectGuesses # correctGuesses
    /\ incorrectGuesses # {}

\* C39: reveal() returns totalNeighbors equal to the size of the answer set
\* and revealed equal to the number of answer-set codes that were not in
\* correctGuesses before the call.  The expression of the code is
\* 2 * (neighbors.length - correctGuesses.size) taken after the loop has put
\* every neighbor into correctGuesses: it is 0 whatever was missing.
C39_Original ==
    [][ret'.op = "reveal" =>
          /\ ret'.totalNeighbors = Cardinality(AnswerSet)
          /\ ret'.revealed = Cardinality(AnswerSet \ correctGuesses)]_vars

\* What reveal() does return: the size of the answer set, and 0
RevealReturnsZero ==
    [][ret'.op = "reveal" =>
          /\ ret'.totalNeighbors = Cardinality(AnswerSet)
          /\ ret'.revealed = 0]_vars

MapClasses == {"map-target", "map-correct", "map-missing", "map-other"}

\* C37: render gives every country one of the classes target, correct,
\* missing, other, with the priority target > correct > missing > other, and
\* the dashed outline exactly to the countries classified as missing, for
\* every target and every pair of correct / all-neighbor sets.
C37_RenderClasses ==
    ret.op = "render" =>
        \A code \in Codes :
            /\ ret.class[code] \in MapClasses
            /\ code = ret.targetCountryCode <=> ret.class[code] = "map-target"
            /\ (code # ret.targetCountryCode /\ code \in ret.correctNeighbors)
                  <=> ret.class[code] = "map-correct"
            /\ (code # ret.targetCountryCode /\ code \notin ret.correctNeighbors
                    /\ code \in ret.allNeighbors)
                  <=> ret.class[code] = "map-missing"
            /\ ret.dashed[code] <=> ret.class[code] = "map-missing"

\* A rendering in which the priorities decide: the target is also in both
\* sets, a correct code is also a neighbor, and one neighbor is missing
C37_Witness ==
    /\ ret.op = "render"
    /\ ret.targetCountryCode \in ret.correctNeighbors \cap ret.allNeighbors
    /\ \E code \in ret.correctNeighbors \cap ret.allNeighbors : code # ret.targetCountryCode
    /\ \E code \in Codes : ret.dashed[code]

\* C38: for every region id and every country table, filterCountriesByRegion
\* returns exactly the entries whose code satisfies isCountryInRegion for
\* that id; an unknown region id behaves as ALL, and the ALL region returns
\* the table unchanged.
C38_FilterByRegion ==
    ret.op = "filterCountriesByRegion" =>
        /\ DOMAIN ret.result =
              {code \in DOMAIN ret.countries : isCountryInRegion(code, ret.regionId)}
        /\ \A code \in DOMAIN ret.result : ret.result[code] = ret.countries[code]
        /\ ret.regionId \notin RegionKeys =>
              ret.result = filterCountriesByRegion(ret.countries, "ALL")
        /\ ret.regionId \notin RegionKeys \/ ret.regionId = "ALL" =>
              ret.result = ret.countries

\* A table filtered by a region that keeps some entries and drops others
C38_Witness ==
    /\ ret.op = "filterCountriesByRegion"
    /\ ret.regionId = "EUROPE"
    /\ ret.result # ret.countries
    /\ DOMAIN ret.result # {}

\* A table filtered by an id that is no key of REGIONS
UnknownRegionFiltered ==
    /\ ret.op = "filterCountriesByRegion"
    /\ ret.regionId \notin RegionKeys
    /\ DOMAIN ret.countries # {}

\* C35: the keyboard adds a guess only from a dropdown that is shown: once
\* the dropdown has been hidden, arrow keys and Enter add no guess until a
\* search has shown suggestions again.  hideDropdown leaves the items and
\* availableSuggestions in place, and Enter looks at both without asking
\* whether the dropdown is hidden.
C35_Original ==
    [][(ret.op = "idle" /\ ret'.op = "addGuess" /\ ret'.success) => ~ui.dropdownHidden]_vars

====
